---------------------------- MODULE Spec2Model ----------------------------
(***************************************************************************)
(* A model of the BISO-AI ingestion / prioritisation / retrieval pipeline: *)
(* the indexing orchestrator (IndexingService in src/src/app/lib/ai.ts),   *)
(* its HTTP handlers (src/unnamed/part_001), the document prioritizer and  *)
(* the hybrid retriever.                                                   *)
(*                                                                         *)
(* Strings the code inspects character by character (file names, folder    *)
(* paths) are sequences of one-character strings, so that the regular      *)
(* expressions of the code are computed and not assumed.                   *)
(***************************************************************************)
EXTENDS Integers, Sequences, FiniteSets, TLC

(***************************************************************************)
(* Bounds of the model.                                                    *)
(***************************************************************************)
\* longest input list handed to prioritizeDocuments on its own
MaxInput == 4

\* indexing jobs started in one run of the process
MaxJobs == 2

\* indexing jobs that are in flight at the same time
MaxRunning == 1

\* largest batchSize a start-job request asks for (the route allows 1..100)
MaxBatchSize == 2

\* most chunks the document processor makes of one document
MaxChunks == 2

\* longest list of keyword hits, and of semantic hits, handed to the merge
MaxHits == 2

\* largest k of a merge or of a search
MaxK == 2

\* points of the collection a search runs over
MaxUnits == 2

\* the results of one reranking
MaxResults == 3

\* the pieces of one extracted text
MaxBlocks == 4

\* the calls of addDocuments on one collection
MaxCalls == 2

\* createSemanticChunks: const chunkSize = 1200, const overlap = 300
chunkSize == 1200

overlap == 300

(***************************************************************************)
(* Characters and character sequences.                                     *)
(***************************************************************************)
Min(S) == CHOOSE x \in S : \A y \in S : x <= y

\* \s of a JavaScript regular expression, over the characters the model uses
IsSpace(c) == c \in {" ", "\t", "\n"}

\* \d of a JavaScript regular expression
IsDigit(c) == c \in {"0", "1", "2", "3", "4", "5", "6", "7", "8", "9"}

UpperChars == <<"A","B","C","D","E","F","G","H","I","J","K","L","M",
                "N","O","P","Q","R","S","T","U","V","W","X","Y","Z">>

LowerChars == <<"a","b","c","d","e","f","g","h","i","j","k","l","m",
                "n","o","p","q","r","s","t","u","v","w","x","y","z">>

LowerChar(c) ==
    IF \E i \in 1..26 : UpperChars[i] = c
    THEN LowerChars[CHOOSE i \in 1..26 : UpperChars[i] = c]
    ELSE c

\* String.prototype.toLowerCase
toLowerCase(s) == [i \in 1..Len(s) |-> LowerChar(s[i])]

\* the first position >= i that holds no white space (Len(s)+1 at the end)
SkipSpaces(s, i) ==
    Min({j \in i..(Len(s) + 1) : j = Len(s) + 1 \/ ~IsSpace(s[j])})

\* the first position >= i that holds no digit (Len(s)+1 at the end)
SkipDigits(s, i) ==
    Min({j \in i..(Len(s) + 1) : j = Len(s) + 1 \/ ~IsDigit(s[j])})

\* whether the characters of s from position i on start with t, ignoring case
StartsWithCI(s, i, t) ==
    /\ i + Len(t) - 1 <= Len(s)
    /\ \A k \in 1..Len(t) : LowerChar(s[i + k - 1]) = LowerChar(t[k])

\* String.prototype.includes
includes(s, t) ==
    \E i \in 1..(Len(s) + 1) :
        /\ i + Len(t) - 1 <= Len(s)
        /\ \A k \in 1..Len(t) : s[i + k - 1] = t[k]

(***************************************************************************)
(* getDocumentBaseName: four global replacements and a trim.  Each Match   *)
(* operator gives the position after the match that starts at i, or 0 when *)
(* the expression does not match there.                                    *)
(***************************************************************************)
RECURSIVE SkipDotDigits(_, _)
\* (\.\d+)* from position p
SkipDotDigits(s, p) ==
    IF p + 1 <= Len(s) /\ s[p] = "." /\ IsDigit(s[p + 1])
    THEN SkipDotDigits(s, SkipDigits(s, p + 1))
    ELSE p

\* /\s*v\d+(\.\d+)*(\.\d+)*/gi at position i
MatchVersion(s, i) ==
    LET j == SkipSpaces(s, i)
    IN  IF j + 1 <= Len(s) /\ LowerChar(s[j]) = "v" /\ IsDigit(s[j + 1])
        THEN SkipDotDigits(s, SkipDigits(s, j + 1))
        ELSE 0

\* /\s*(nor|norsk|eng|english)\s*/gi at position i: the alternation takes its
\* first alternative that matches, so "norsk" is matched as "nor" and
\* "english" as "eng"
MatchLanguage(s, i) ==
    LET j == SkipSpaces(s, i)
    IN  IF StartsWithCI(s, j, <<"n","o","r">>) \/ StartsWithCI(s, j, <<"e","n","g">>)
        THEN SkipSpaces(s, j + 3)
        ELSE 0

\* /\s*\([^)]*\)\s*/g at position i
MatchParens(s, i) ==
    LET j == SkipSpaces(s, i)
        closing == {k \in (j + 1)..Len(s) : s[k] = ")"}
    IN  IF j <= Len(s) /\ s[j] = "(" /\ closing # {}
        THEN SkipSpaces(s, Min(closing) + 1)
        ELSE 0

\* /\s+/g at position i
MatchSpaces(s, i) ==
    IF i <= Len(s) /\ IsSpace(s[i]) THEN SkipSpaces(s, i) ELSE 0

RECURSIVE RemoveVersions(_, _)
RemoveVersions(s, i) ==
    IF i > Len(s) THEN <<>>
    ELSE IF MatchVersion(s, i) # 0 THEN RemoveVersions(s, MatchVersion(s, i))
    ELSE <<s[i]>> \o RemoveVersions(s, i + 1)

RECURSIVE RemoveLanguages(_, _)
RemoveLanguages(s, i) ==
    IF i > Len(s) THEN <<>>
    ELSE IF MatchLanguage(s, i) # 0 THEN RemoveLanguages(s, MatchLanguage(s, i))
    ELSE <<s[i]>> \o RemoveLanguages(s, i + 1)

RECURSIVE RemoveParens(_, _)
RemoveParens(s, i) ==
    IF i > Len(s) THEN <<>>
    ELSE IF MatchParens(s, i) # 0 THEN RemoveParens(s, MatchParens(s, i))
    ELSE <<s[i]>> \o RemoveParens(s, i + 1)

RECURSIVE NormalizeSpaces(_, _)
NormalizeSpaces(s, i) ==
    IF i > Len(s) THEN <<>>
    ELSE IF MatchSpaces(s, i) # 0 THEN <<" ">> \o NormalizeSpaces(s, MatchSpaces(s, i))
    ELSE <<s[i]>> \o NormalizeSpaces(s, i + 1)

\* the last position <= i that holds no white space (0 when there is none)
RECURSIVE SkipSpacesBack(_, _)
SkipSpacesBack(s, i) ==
    IF i = 0 \/ ~IsSpace(s[i]) THEN i ELSE SkipSpacesBack(s, i - 1)

\* String.prototype.trim
trim(s) == SubSeq(s, SkipSpaces(s, 1), SkipSpacesBack(s, Len(s)))

\* getDocumentBaseName with the first replace (the version patterns) left out
getDocumentBaseNameKeepsVersions(fileName) ==
    trim(NormalizeSpaces(RemoveParens(RemoveLanguages(fileName, 1), 1), 1))

getDocumentBaseName(fileName) ==
    trim(NormalizeSpaces(RemoveParens(RemoveLanguages(RemoveVersions(fileName, 1), 1), 1), 1))

(***************************************************************************)
(* The documents of the SharePoint library the model draws from.  The      *)
(* first four are the documents of the repository's own example            *)
(* (src/test/language-version-test.js, lines 74-77); X1..X3 are three      *)
(* variants of one more document.                                          *)
(***************************************************************************)
ExampleIds == {"N71", "N70", "N63", "E71"}

VariantIds == {"X1", "X2", "X3"}

\* a video, which the orchestrator does not index
VideoIds == {"M1"}

\* the documents prioritizeDocuments is tried on
PrioritizePool == ExampleIds \cup VariantIds

LibraryIds == PrioritizePool \cup VideoIds

RootFolder == <<"/">>

DocumentName(id) ==
    CASE id = "N71" -> <<"L","o","k","a","l","e"," ","l","o","v","e","r"," ","B","I","S","O"," ","O","s","l","o"," ","v","7",".","1",".","p","d","f">>
      [] id = "N70" -> <<"L","o","k","a","l","e"," ","l","o","v","e","r"," ","B","I","S","O"," ","O","s","l","o"," ","v","7",".","0",".","p","d","f">>
      [] id = "N63" -> <<"L","o","k","a","l","e"," ","l","o","v","e","r"," ","B","I","S","O"," ","O","s","l","o"," ","v","6",".","3",".","p","d","f">>
      [] id = "E71" -> <<"L","o","c","a","l"," ","l","a","w","s"," ","B","I","S","O"," ","O","s","l","o"," ","v","7",".","1"," ","E","N","G",".","p","d","f">>
      [] id = "X1"  -> <<"V","e","d","t","e","k","t","e","r"," ","v","7",".","1","0",".","p","d","f">>
      [] id = "X2"  -> <<"V","e","d","t","e","k","t","e","r"," ","v","7",".","9"," ","E","N","G",".","p","d","f">>
      [] id = "X3"  -> <<"V","e","d","t","e","k","t","e","r"," ","(","k","o","p","i",")"," ","v","7",".","9",".","p","d","f">>
      [] id = "M1"  -> <<"I","n","t","r","o",".","m","p","4">>

\* a SharePointDocument, as far as the orchestrator reads it
Library ==
    [id \in LibraryIds |->
        [id |-> id, name |-> DocumentName(id), folderPath |-> RootFolder,
         contentType |-> IF id \in VideoIds THEN "video/mp4" ELSE "application/pdf"]]

\* the key prioritizeDocuments groups by: `${baseName}_${doc.folderPath}`.toLowerCase()
GroupKeyOfName(name, folderPath) ==
    toLowerCase(getDocumentBaseName(name) \o <<"_">> \o folderPath)

\* the key of every document of the library, computed once
GroupKey == [id \in LibraryIds |-> GroupKeyOfName(Library[id].name, Library[id].folderPath)]

(***************************************************************************)
(* The document classifier (./document-classifier) is not among the        *)
(* source files.  What it answers for the four example documents is the    *)
(* table the repository prints in its test; what it answers for X1..X3 is  *)
(* an input of the model (classifierOut).                                  *)
(***************************************************************************)
VARIABLES classifierOut

Languages == {"norwegian", "english"}

\* priorities the classifier may give a variant
VariantPriorities == {1, 2}

ClassificationOutputs ==
    [language : Languages, isTranslation : BOOLEAN, priority : VariantPriorities]

\* "Lokale lover BISO Oslo v7.1.pdf" -> Norwegian, v7.1, Priority: 217, ...
ExampleClassification(id) ==
    CASE id = "N71" -> [language |-> "norwegian", isTranslation |-> FALSE, priority |-> 217]
      [] id = "N70" -> [language |-> "norwegian", isTranslation |-> FALSE, priority |-> 207]
      [] id = "E71" -> [language |-> "english",   isTranslation |-> TRUE,  priority |-> 167]
      [] id = "N63" -> [language |-> "norwegian", isTranslation |-> FALSE, priority |-> 153]

\* the version the same table gives each example document, as <<major, minor>>
ExampleVersion(id) ==
    CASE id = "N71" -> <<7, 1>>
      [] id = "N70" -> <<7, 0>>
      [] id = "E71" -> <<7, 1>>
      [] id = "N63" -> <<6, 3>>

\* documentClassifier.classifyDocument(doc.name, doc.folderPath || '/')
classifyDocument(id) ==
    IF id \in ExampleIds THEN ExampleClassification(id) ELSE classifierOut[id]

\* documentClassifier.compareAuthority(a, b): negative when a ranks before b
\* ("Sort by authority priority")
compareAuthority(a, b) == b.priority - a.priority

(***************************************************************************)
(* prioritizeDocuments                                                     *)
(***************************************************************************)
\* Array.prototype.sort with compareAuthority: a stable sort, by insertion
RECURSIVE InsertByAuthority(_, _)
InsertByAuthority(sorted, id) ==
    IF sorted = <<>> THEN <<id>>
    ELSE IF compareAuthority(classifyDocument(id), classifyDocument(Head(sorted))) < 0
         THEN <<id>> \o sorted
         ELSE <<Head(sorted)>> \o InsertByAuthority(Tail(sorted), id)

RECURSIVE SortByAuthority(_)
SortByAuthority(ids) ==
    IF ids = <<>> THEN <<>>
    ELSE InsertByAuthority(SortByAuthority(SubSeq(ids, 1, Len(ids) - 1)), ids[Len(ids)])

\* the keys of the Map documentGroups, in insertion order
RECURSIVE GroupKeysInOrder(_)
GroupKeysInOrder(ids) ==
    IF ids = <<>> THEN <<>>
    ELSE LET before == GroupKeysInOrder(SubSeq(ids, 1, Len(ids) - 1))
             key == GroupKey[ids[Len(ids)]]
         IN  IF \E i \in 1..Len(before) : before[i] = key THEN before
             ELSE Append(before, key)

\* documentGroups.get(key)
GroupDocs(ids, key) == SelectSeq(ids, LAMBDA id : GroupKey[id] = key)

\* classified.find(c => c.classification.language === 'english' &&
\*                      c.classification.authority.isTranslation)
IsEnglishTranslation(id) ==
    classifyDocument(id).language = "english" /\ classifyDocument(id).isTranslation

\* SelectFromGroup with the isTranslation test of the find left out
SelectFromGroupAnyEnglish(groupDocs) ==
    IF Len(groupDocs) = 1 THEN <<groupDocs[1]>>
    ELSE LET classified == SortByAuthority(groupDocs)
             mostAuthoritative == classified[1]
             english == SelectSeq(classified,
                            LAMBDA id : classifyDocument(id).language = "english")
         IN  <<mostAuthoritative>> \o
             (IF classifyDocument(mostAuthoritative).language = "norwegian" /\ english # <<>>
              THEN <<english[1]>>
              ELSE <<>>)

\* SelectFromGroup with the test "the primary is Norwegian" left out
SelectFromGroupAnyPrimary(groupDocs) ==
    IF Len(groupDocs) = 1 THEN <<groupDocs[1]>>
    ELSE LET classified == SortByAuthority(groupDocs)
             mostAuthoritative == classified[1]
             english == SelectSeq(classified, IsEnglishTranslation)
         IN  <<mostAuthoritative>> \o
             (IF english # <<>> THEN <<english[1]>> ELSE <<>>)

\* what one iteration of "for (const [groupKey, groupDocs] of documentGroups)"
\* pushes to prioritizedDocuments
SelectFromGroup(groupDocs) ==
    IF Len(groupDocs) = 1 THEN <<groupDocs[1]>>
    ELSE LET classified == SortByAuthority(groupDocs)
             mostAuthoritative == classified[1]
             english == SelectSeq(classified, IsEnglishTranslation)
         IN  <<mostAuthoritative>> \o
             (IF classifyDocument(mostAuthoritative).language = "norwegian" /\ english # <<>>
              THEN <<english[1]>>
              ELSE <<>>)

RECURSIVE SelectFromGroups(_, _)
SelectFromGroups(ids, keys) ==
    IF keys = <<>> THEN <<>>
    ELSE SelectFromGroup(GroupDocs(ids, Head(keys))) \o SelectFromGroups(ids, Tail(keys))

prioritizeDocuments(ids) == SelectFromGroups(ids, GroupKeysInOrder(ids))

(***************************************************************************)
(* prioritizeDocuments on its own: the input list and the classifier's     *)
(* answers are drawn in PrioritizeInit, Prioritize applies the function.   *)
(***************************************************************************)
VARIABLES documents, prioritized, pcPrioritize

prioritizeVars == <<documents, prioritized, pcPrioritize, classifierOut>>

Range(seq) == {seq[i] : i \in DOMAIN seq}

\* lists of at most n distinct elements of S
DistinctSeqs(S, n) ==
    {q \in UNION {[1..m -> S] : m \in 0..n} :
        \A i, j \in DOMAIN q : i # j => q[i] # q[j]}

DefaultClassification == [language |-> "norwegian", isTranslation |-> FALSE, priority |-> 1]

NoClassifierOut == [id \in VariantIds |-> DefaultClassification]

PrioritizeIdle ==
    /\ documents = <<>>
    /\ prioritized = <<>>
    /\ pcPrioritize = "idle"
    /\ classifierOut = NoClassifierOut

PrioritizeInit ==
    /\ documents \in DistinctSeqs(PrioritizePool, MaxInput)
    /\ classifierOut \in [VariantIds -> ClassificationOutputs]
    /\ \A id \in VariantIds \ Range(documents) : classifierOut[id] = DefaultClassification
    /\ prioritized = <<>>
    /\ pcPrioritize = "input"

Prioritize ==
    /\ pcPrioritize = "input"
    /\ prioritized' = prioritizeDocuments(documents)
    /\ pcPrioritize' = "done"
    /\ UNCHANGED <<documents, classifierOut>>

(***************************************************************************)
(* The hybrid merge of searchDocuments.  Scores are in thousandths, so     *)
(* 1.0 is 1000 and x * 0.3 is 3 * x \div 10 (the scores of the model are   *)
(* multiples of ten).                                                      *)
(***************************************************************************)
\* position of the entry of resultMap with that id, 0 when there is none
MapIndex(resultMap, id) ==
    IF \E i \in DOMAIN resultMap : resultMap[i].id = id
    THEN CHOOSE i \in DOMAIN resultMap : resultMap[i].id = id
    ELSE 0

\* keywordResults.forEach: a result is set unless its id is in the map
RECURSIVE SeedFirst(_, _)
SeedFirst(hits, resultMap) ==
    IF hits = <<>> THEN resultMap
    ELSE LET result == Head(hits)
         IN  SeedFirst(Tail(hits),
                 IF MapIndex(resultMap, result.id) # 0 THEN resultMap
                 ELSE Append(resultMap,
                          [id |-> result.id, score |-> result.score,
                           searchType |-> "keyword", originalScore |-> result.score]))

\* Math.min(1.0, (existing.originalScore || 0) + result.score * 0.3)
BoostedScore(originalScore, score) ==
    IF originalScore + (3 * score) \div 10 > 1000 THEN 1000
    ELSE originalScore + (3 * score) \div 10

\* semanticResults.forEach: a result whose id is in the map boosts that
\* entry, another one is set
RECURSIVE AddSecond(_, _)
AddSecond(hits, resultMap) ==
    IF hits = <<>> THEN resultMap
    ELSE LET result == Head(hits)
             at == MapIndex(resultMap, result.id)
         IN  AddSecond(Tail(hits),
                 IF at # 0
                 THEN [resultMap EXCEPT
                          ![at].score = BoostedScore(resultMap[at].originalScore, result.score),
                          ![at].searchType = "hybrid"]
                 ELSE Append(resultMap,
                          [id |-> result.id, score |-> result.score,
                           searchType |-> "semantic", originalScore |-> result.score]))

\* Array.prototype.sort with (a, b) => (b.score || 0) - (a.score || 0): stable
RECURSIVE InsertByScore(_, _)
InsertByScore(sorted, entry) ==
    IF sorted = <<>> THEN <<entry>>
    ELSE IF entry.score > Head(sorted).score
         THEN <<entry>> \o sorted
         ELSE <<Head(sorted)>> \o InsertByScore(Tail(sorted), entry)

RECURSIVE SortByScore(_)
SortByScore(entries) ==
    IF entries = <<>> THEN <<>>
    ELSE InsertByScore(SortByScore(SubSeq(entries, 1, Len(entries) - 1)),
                       entries[Len(entries)])

\* Array.prototype.slice(0, k)
Slice(seq, k) == SubSeq(seq, 1, IF k < Len(seq) THEN k ELSE Len(seq))

\* the merge with the final sort left out
HybridMergeUnsorted(first, second, k) ==
    Slice(AddSecond(second, SeedFirst(first, <<>>)), k)

\* the merge of the two hit lists, the list `first` seeded first
HybridMerge(first, second, k) ==
    Slice(SortByScore(AddSecond(second, SeedFirst(first, <<>>))), k)

(***************************************************************************)
(* rerankResults: Array.prototype.sort with a comparator that adds the six *)
(* bonuses to a.score and b.score at every call.  The comparator is not a  *)
(* consistent one, so the order of its calls decides the outcome: the sort *)
(* is the one of V8 (the engine of Node.js), which for fewer than 64       *)
(* elements counts the run the array starts with and inserts the other     *)
(* elements by binary insertion.                                           *)
(***************************************************************************)
\* what one call of the comparator adds to the score of a result: the six
\* factors, of result.metadata and of the length of result.content, in
\* thousandths
RerankBonus(result, q, queryLanguage) ==
    LET metadata == result.metadata
        \* Factor 1: aMetadata.isStructured ? 0.2 : 0
        StructuredBonus == IF metadata.isStructured THEN 200 ELSE 0
        \* Factor 2: getLanguageScore
        LanguageScore ==
            IF metadata.documentLanguage = "norwegian"
            THEN (IF queryLanguage = "norwegian" THEN 300 ELSE 250)
            ELSE IF metadata.documentLanguage = "english" /\ queryLanguage = "english" THEN 200
            ELSE IF metadata.documentLanguage = "mixed" THEN 150
            ELSE 0
        \* Factor 3: getAuthorityScore; Math.min(0.3, priority / 500) is
        \* 2 * priority thousandths, at most 300
        AuthorityScore ==
            (IF metadata.isAuthoritative THEN 200 ELSE 0)
            + (IF metadata.isLatest THEN 150 ELSE 0)
            - (IF metadata.isTranslation THEN 100 ELSE 0)
            + Min({300, 2 * metadata.authorityPriority})
        \* Factor 4: sectionTitle && queryLower.includes(sectionTitle.toLowerCase())
        TitleMatch ==
            IF /\ metadata.sectionTitle # <<>>
               /\ includes(toLowerCase(q), toLowerCase(metadata.sectionTitle))
            THEN 150 ELSE 0
        \* Factor 5: getContentLengthScore
        length == result.contentLength
        LengthScore ==
            IF length < 100 THEN -100
            ELSE IF length > 3000 THEN -50
            ELSE IF length >= 500 /\ length <= 1500 THEN 100
            ELSE 0
        \* Factor 6: getRecencyScore, of the age in days (-1: no lastModified)
        ageDays == metadata.ageDays
        RecencyScore ==
            IF ageDays < 0 THEN 0
            ELSE IF ageDays < 365 THEN 50
            ELSE IF ageDays < 3 * 365 THEN 20
            ELSE 0
    IN  StructuredBonus + LanguageScore + AuthorityScore + TitleMatch
        + LengthScore + RecencyScore

\* comparefn(a, b) on the results x and y of the sort state st: both scores
\* are rewritten, and bFinalScore - aFinalScore is returned
Compare(st, x, y) ==
    LET aFinalScore == st.score[x] + st.bonus[x]
        bFinalScore == st.score[y] + st.bonus[y]
    IN  [st EXCEPT !.score = [@ EXCEPT ![x] = aFinalScore, ![y] = bFinalScore],
                   !.order = bFinalScore - aFinalScore]

\* CountAndMakeRun, the loop from idx on: the length of the run
RECURSIVE CountRun(_, _, _, _)
CountRun(st, idx, isDescending, runLength) ==
    IF idx > Len(st.arr) THEN [st |-> st, runLength |-> runLength]
    ELSE LET next == Compare(st, st.arr[idx], st.arr[idx - 1])
         IN  IF (isDescending /\ next.order >= 0) \/ (~isDescending /\ next.order < 0)
             THEN [st |-> next, runLength |-> runLength]
             ELSE CountRun(next, idx + 1, isDescending, runLength + 1)

\* CountAndMakeRun(0, length), for two elements or more; a descending run
\* is reversed (ReverseRange)
CountAndMakeRun(st) ==
    LET first == Compare(st, st.arr[2], st.arr[1])
        isDescending == first.order < 0
        counted == CountRun(first, 3, isDescending, 2)
        n == counted.runLength
    IN  IF isDescending
        THEN [counted EXCEPT !.st.arr =
                [i \in DOMAIN @ |-> IF i <= n THEN @[n + 1 - i] ELSE @[i]]]
        ELSE counted

\* the binary search of BinaryInsertionSort: the place of pivot in [left, right)
RECURSIVE BinarySearch(_, _, _, _)
BinarySearch(st, pivot, left, right) ==
    IF left >= right THEN [st |-> st, left |-> left]
    ELSE LET mid == left + (right - left) \div 2
             next == Compare(st, pivot, st.arr[mid])
         IN  IF next.order < 0 THEN BinarySearch(next, pivot, left, mid)
             ELSE BinarySearch(next, pivot, mid + 1, right)

\* BinaryInsertionSort(0, start, length): the element at start moves to the
\* place the search found, the ones between shift up
RECURSIVE BinaryInsertionSort(_, _)
BinaryInsertionSort(st, start) ==
    IF start > Len(st.arr) THEN st
    ELSE LET found == BinarySearch(st, st.arr[start], 1, start)
             to == found.left
             moved == [i \in DOMAIN st.arr |->
                          IF i < to \/ i > start THEN st.arr[i]
                          ELSE IF i = to THEN st.arr[start]
                          ELSE st.arr[i - 1]]
         IN  BinaryInsertionSort([found.st EXCEPT !.arr = moved], start + 1)

\* rerankResults(results, query): results.sort(comparefn), the results in
\* their new order with the scores the comparator left in them;
\* queryLanguage is what detectQueryLanguage answered for the query
rerankResults(results, q, queryLanguage) ==
    LET st == [arr |-> [i \in DOMAIN results |-> i],
               score |-> [i \in DOMAIN results |-> results[i].score],
               bonus |-> [i \in DOMAIN results |-> RerankBonus(results[i], q, queryLanguage)],
               order |-> 0]
        sorted == IF Len(results) < 2 THEN st
                  ELSE LET run == CountAndMakeRun(st)
                       IN  BinaryInsertionSort(run.st, run.runLength + 1)
    IN  [i \in DOMAIN results |->
            [results[sorted.arr[i]] EXCEPT !.score = sorted.score[sorted.arr[i]]]]

(***************************************************************************)
(* searchDocuments: the keyword pass, the semantic pass and their merge.   *)
(* The similarity of a point to a query string is the embedding            *)
(* provider's: every point carries its similarity to the broad query of    *)
(* the keyword pass and to the augmented query of the semantic pass.       *)
(***************************************************************************)
\* CONFIG.SEARCH, in thousandths
MIN_SCORE_THRESHOLD == 100

MAX_BROAD_SEARCH_LIMIT == 1000

MAX_TOKENS_PER_REQUEST == 7000

MAX_TOKENS_PER_INPUT == 2000

MAX_ITEMS_PER_BATCH == 64

MAX_ATTEMPTS == 3

INITIAL_DELAY == 1000

BACKOFF_MULTIPLIER == 2

\* the k of the search for the existing chunks in reindexDocument
ReindexSearchK == 1000

Queries == {
    <<"§"," ","6",".","3">>,
    <<"§"," ","6",".","3"," ","v","e","d","t","e","k","t","e","n","e">>,
    <<"l","o","k","a","l","e"," ","l","o","v","e","r"," ","O","s","l","o">> }

\* the chunks the points are made of: content, metadata.isStructured and
\* metadata.sectionNumber (<<>> when the chunk has none)
Shapes == {"section", "mention", "other"}

ShapeContent(shape) ==
    CASE shape = "section" -> <<"§"," ","6",".","3"," ","V","a","l","g">>
      [] shape = "mention" -> <<"s","e"," ","p","u","n","k","t"," ","6",".","3"," ","h","e","r">>
      [] shape = "other" -> <<"b","u","d","s","j","e","t","t">>

ShapeStructured(shape) == shape = "section"

ShapeSectionNumber(shape) == IF shape = "section" THEN <<"6",".","3">> ELSE <<>>

\* metadata.sectionTitle (<<>> when the chunk has none)
ShapeSectionTitle(shape) == IF shape = "section" THEN <<"V","a","l","g">> ELSE <<>>

\* the payloads processDocument writes; padding is the number of characters
\* of the content after the ones of the shape, none of them part of a match
Points ==
    [siteId : {"A", "B"}, isLatest : BOOLEAN, isAuthoritative : BOOLEAN,
     documentCategory : {"statutes", "local-laws"}, shape : Shapes,
     simBroad : {50, 400}, simSemantic : {300, 600},
     documentLanguage : {"norwegian"}, padding : {0}]

\* the eligible chunks of the statutes: the structured chunk of section
\* 6.3 and the unstructured chunks that mention 6.3, of either language,
\* short or of some 600 characters, every one above the score threshold
LocatorPoints ==
    [siteId : {"A"}, isLatest : {TRUE}, isAuthoritative : {TRUE},
     documentCategory : {"statutes"}, shape : {"section", "mention"},
     simBroad : {150, 700}, simSemantic : {300, 600},
     documentLanguage : {"norwegian", "english"}, padding : {0, 600}]

\* the filters a caller passes: none, or one site
CallerFilters == {{}, {<<"siteId", "A">>}}

VARIABLES collection, query, queryLanguage, searchK, callerFilter, answer, pcSearch

searchVars == <<collection, query, queryLanguage, searchK, callerFilter, answer, pcSearch>>

\* /(vedtekt|vedtektene|statute|statutes)/i.test(query)
isStatutes(q) ==
    \/ includes(toLowerCase(q), <<"v","e","d","t","e","k","t">>)
    \/ includes(toLowerCase(q), <<"s","t","a","t","u","t","e">>)

\* /(lokal(e)?\s+lov(er)?|local\s+law(s)?)/i.test(query)
isLocalLaws(q) ==
    \E i \in 1..Len(q) :
        \/ /\ StartsWithCI(q, i, <<"l","o","k","a","l">>)
           /\ \E j \in {i + 5, i + 6} :
                 /\ j = i + 6 => StartsWithCI(q, i + 5, <<"e">>)
                 /\ j <= Len(q) /\ IsSpace(q[j])
                 /\ StartsWithCI(q, SkipSpaces(q, j), <<"l","o","v">>)
        \/ /\ StartsWithCI(q, i, <<"l","o","c","a","l">>)
           /\ i + 5 <= Len(q) /\ IsSpace(q[i + 5])
           /\ StartsWithCI(q, SkipSpaces(q, i + 5), <<"l","a","w">>)

detectedCategory(q) ==
    IF isStatutes(q) THEN "statutes" ELSE IF isLocalLaws(q) THEN "local-laws" ELSE "none"

\* the three patterns, by the alternatives that precede \s*(\d+(?:\.\d+)*)
Patterns == <<
    << <<"§">> >>,
    << <<"p","a","r","a","g","r","a","f">>, <<"p","a","r","a","g","r","a","p","h">>,
       <<"a","v","s","n","i","t","t">>, <<"s","e","c","t","i","o","n">> >>,
    << <<"a","r","t","i","k","k","e","l">>, <<"a","r","t","i","c","l","e">> >> >>

\* the match of one pattern at position i: [from, number, to) or <<>>
MatchPattern(q, i, prefixes) ==
    LET fits == {n \in DOMAIN prefixes :
                    /\ StartsWithCI(q, i, prefixes[n])
                    /\ LET d == SkipSpaces(q, i + Len(prefixes[n]))
                       IN  d <= Len(q) /\ IsDigit(q[d])}
    IN  IF fits = {} THEN <<>>
        ELSE LET d == SkipSpaces(q, i + Len(prefixes[Min(fits)]))
             IN  <<i, d, SkipDotDigits(q, SkipDigits(q, d))>>

\* Array.from(query.matchAll(regex)): match[0] and match[1] of every match
RECURSIVE MatchAll(_, _, _)
MatchAll(q, i, prefixes) ==
    IF i > Len(q) THEN <<>>
    ELSE LET m == MatchPattern(q, i, prefixes)
         IN  IF m = <<>> THEN MatchAll(q, i + 1, prefixes)
             ELSE <<[keywordQuery |-> SubSeq(q, m[1], m[3] - 1),
                     numberOnly |-> SubSeq(q, m[2], m[3] - 1)]>>
                  \o MatchAll(q, m[3], prefixes)

\* the matches of the first pattern type that has any
PatternMatches(q) ==
    IF MatchAll(q, 1, Patterns[1]) # <<>> THEN MatchAll(q, 1, Patterns[1])
    ELSE IF MatchAll(q, 1, Patterns[2]) # <<>> THEN MatchAll(q, 1, Patterns[2])
    ELSE MatchAll(q, 1, Patterns[3])

\* the similarity of a point to the broad query or to the augmented query
Similarity(id, pass) ==
    IF pass = "broad" THEN collection[id].simBroad ELSE collection[id].simSemantic

\* the points as the client answers them: similarity first, and the points
\* of equal similarity in the order of their ids
RECURSIVE InsertBySimilarity(_, _, _)
InsertBySimilarity(sorted, id, pass) ==
    IF sorted = <<>> THEN <<id>>
    ELSE IF Similarity(id, pass) > Similarity(Head(sorted), pass)
         THEN <<id>> \o sorted
         ELSE <<Head(sorted)>> \o InsertBySimilarity(Tail(sorted), id, pass)

RECURSIVE BySimilarity(_, _)
BySimilarity(n, pass) ==
    IF n = 0 THEN <<>> ELSE InsertBySimilarity(BySimilarity(n - 1, pass), n, pass)

\* QdrantVectorStore.searchBroad(query, limit)
searchBroad(limit) ==
    LET cappedLimit == IF limit < MAX_BROAD_SEARCH_LIMIT THEN limit ELSE MAX_BROAD_SEARCH_LIMIT
        above == SelectSeq(BySimilarity(Len(collection), "broad"),
                           LAMBDA id : Similarity(id, "broad") >= MIN_SCORE_THRESHOLD)
    IN  [i \in DOMAIN Slice(above, cappedLimit) |->
            [id |-> above[i], score |-> Similarity(above[i], "broad")]]

\* the value of a payload key, as the filter of the client compares it
PayloadValue(point, key) ==
    CASE key = "siteId" -> point.siteId
      [] key = "isLatest" -> IF point.isLatest THEN "true" ELSE "false"
      [] key = "isAuthoritative" -> IF point.isAuthoritative THEN "true" ELSE "false"
      [] key = "documentCategory" -> point.documentCategory

\* filter: { must: Object.entries(filter).map(([key, value]) => ({ key, match: { value } })) }
MatchesFilter(point, filter) == \A f \in filter : PayloadValue(point, f[1]) = f[2]

\* QdrantVectorStore.search({ query, k, filter })
search(k, filter) ==
    LET matching == SelectSeq(BySimilarity(Len(collection), "semantic"),
                              LAMBDA id : MatchesFilter(collection[id], filter))
    IN  [i \in DOMAIN Slice(matching, k) |->
            [id |-> matching[i], score |-> Similarity(matching[i], "semantic")]]

\* textMatch || metadataMatch of searchByKeyword's filter, for a chunk
LocatorMatch(shape, keywordQuery, numberOnly) ==
    LET text == toLowerCase(ShapeContent(shape))
        sectionNumber == ShapeSectionNumber(shape)
        searchTerms == {
            toLowerCase(keywordQuery),
            <<"§">> \o numberOnly,
            <<"§", " ">> \o numberOnly,
            <<"p","a","r","a","g","r","a","f"," ">> \o numberOnly,
            <<"p","a","r","a","g","r","a","p","h"," ">> \o numberOnly,
            <<"s","e","c","t","i","o","n"," ">> \o numberOnly,
            <<"a","v","s","n","i","t","t"," ">> \o numberOnly,
            numberOnly \o <<".">>,
            <<" ">> \o numberOnly \o <<" ">>,
            numberOnly \o <<"\n">>,
            numberOnly \o <<"\t">> }
        textMatch == \E term \in searchTerms : includes(text, term)
        metadataMatch ==
            /\ sectionNumber # <<>>
            /\ \/ sectionNumber = numberOnly
               \/ sectionNumber = <<"§", " ">> \o numberOnly
               \/ sectionNumber = <<"§">> \o numberOnly
               \/ includes(sectionNumber, numberOnly)
    IN  textMatch \/ metadataMatch

\* the values of the query analysis and of LocatorMatch, computed once
QueryCategory == [q \in Queries |-> detectedCategory(q)]

QueryMatches == [q \in Queries |-> PatternMatches(q)]

LocatorMatches ==
    [shape \in Shapes, m \in UNION {Range(QueryMatches[q]) : q \in Queries} |->
        LocatorMatch(shape, m.keywordQuery, m.numberOnly)]

\* the filter of searchByKeyword
KeywordMatch(point, match, category) ==
    /\ point.isLatest /\ point.isAuthoritative
    /\ category # "none" => point.documentCategory = category
    /\ LocatorMatches[point.shape, match]

\* metadata.sectionNumber === numberOnly, the test of the exact section match
ExactSectionMatch(sectionNumber, numberOnly) == sectionNumber = numberOnly

\* scoreBoost of searchByKeyword, in thousandths
ScoreBoost(isStructured, sectionNumber, numberOnly) ==
    300 + (IF isStructured THEN 200 ELSE 0)
        + (IF ExactSectionMatch(sectionNumber, numberOnly) THEN 300 ELSE 0)

\* the comparator of searchByKeyword's sort: a negative number puts a first
KeywordOrder(a, b, numberOnly) ==
    LET aStructured == IF ShapeStructured(collection[a.id].shape) THEN 1 ELSE 0
        bStructured == IF ShapeStructured(collection[b.id].shape) THEN 1 ELSE 0
        aExactMatch == IF ExactSectionMatch(ShapeSectionNumber(collection[a.id].shape), numberOnly)
                       THEN 1 ELSE 0
        bExactMatch == IF ExactSectionMatch(ShapeSectionNumber(collection[b.id].shape), numberOnly)
                       THEN 1 ELSE 0
    IN  IF aStructured # bStructured THEN bStructured - aStructured
        ELSE IF aExactMatch # bExactMatch THEN bExactMatch - aExactMatch
        ELSE b.score - a.score

RECURSIVE InsertByKeywordOrder(_, _, _)
InsertByKeywordOrder(sorted, hit, numberOnly) ==
    IF sorted = <<>> THEN <<hit>>
    ELSE IF KeywordOrder(hit, Head(sorted), numberOnly) < 0
         THEN <<hit>> \o sorted
         ELSE <<Head(sorted)>> \o InsertByKeywordOrder(Tail(sorted), hit, numberOnly)

RECURSIVE SortByKeywordOrder(_, _)
SortByKeywordOrder(hits, numberOnly) ==
    IF hits = <<>> THEN <<>>
    ELSE InsertByKeywordOrder(SortByKeywordOrder(SubSeq(hits, 1, Len(hits) - 1), numberOnly),
                              hits[Len(hits)], numberOnly)

\* Math.min(1.0, (result.score || 0) + scoreBoost)
KeywordBoost(hit, numberOnly) ==
    LET scoreBoost == ScoreBoost(ShapeStructured(collection[hit.id].shape),
                                 ShapeSectionNumber(collection[hit.id].shape), numberOnly)
    IN  [hit EXCEPT !.score = IF @ + scoreBoost > 1000 THEN 1000 ELSE @ + scoreBoost]

searchByKeyword(match, limit, category) ==
    LET broadResults == searchBroad(limit * 5)
        keywordMatches == SelectSeq(broadResults, LAMBDA hit :
                              KeywordMatch(collection[hit.id], match, category))
        sortedMatches == SortByKeywordOrder(keywordMatches, match.numberOnly)
    IN  Slice([i \in DOMAIN sortedMatches |-> KeywordBoost(sortedMatches[i], match.numberOnly)],
              limit)

\* keywordResults.push(...keywordSearchResults), for each match
RECURSIVE KeywordResults(_, _, _)
KeywordResults(matches, k, category) ==
    IF matches = <<>> THEN <<>>
    ELSE searchByKeyword(Head(matches), k * 2, category)
         \o KeywordResults(Tail(matches), k, category)

\* { ...(options.filter || {}), isLatest: true, isAuthoritative: true }, and
\* documentCategory when one was detected
FinalFilter(filter, category) ==
    LET set == {"isLatest", "isAuthoritative"}
                  \cup (IF category # "none" THEN {"documentCategory"} ELSE {})
    IN  {f \in filter : f[1] \notin set}
           \cup {<<"isLatest", "true">>, <<"isAuthoritative", "true">>}
           \cup (IF category # "none" THEN {<<"documentCategory", category>>} ELSE {})

\* combinedResults of searchDocuments(query, { k, filter })
CombinedResults(q, k, filter) ==
    LET category == QueryCategory[q]
        matches == QueryMatches[q]
        hasSpecificPattern == matches # <<>>
        keywordResults == KeywordResults(matches, k, category)
        semanticResults == search(IF hasSpecificPattern THEN k * 2 ELSE k,
                                  FinalFilter(filter, category))
    IN  IF hasSpecificPattern /\ keywordResults # <<>>
        THEN HybridMerge(keywordResults, semanticResults, k)
        ELSE [i \in DOMAIN Slice(semanticResults, k) |->
                 [id |-> semanticResults[i].id, score |-> semanticResults[i].score,
                  searchType |-> "none", originalScore |-> semanticResults[i].score]]

\* augmentedQuery: [query, 'BISO', categoryTerm, campusTerm] joined by one
\* space, for the queries of the model and either query language
AugmentedQuery ==
    [q \in Queries, language \in {"norwegian", "english"} |->
        LET norwegian == language = "norwegian"
            campusCandidates == <<
                <<"o","s","l","o">>, <<"b","e","r","g","e","n">>,
                <<"t","r","o","n","d","h","e","i","m">>,
                <<"s","t","a","v","a","n","g","e","r">>, <<"d","r","a","m","m","e","n">>,
                <<"k","r","i","s","t","i","a","n","s","a","n","d">>,
                <<"å","l","e","s","u","n","d">>, <<"a","l","e","s","u","n","d">>,
                <<"b","o","d","ø">>, <<"b","o","d","o","e">> >>
            detectedCampus == SelectSeq(campusCandidates,
                                        LAMBDA c : includes(toLowerCase(q), c))
            categoryTerm ==
                CASE QueryCategory[q] = "statutes" ->
                        IF norwegian THEN <<"v","e","d","t","e","k","t","e","r">>
                        ELSE <<"s","t","a","t","u","t","e","s">>
                  [] QueryCategory[q] = "local-laws" ->
                        IF norwegian THEN <<"l","o","k","a","l","e"," ","l","o","v","e","r">>
                        ELSE <<"l","o","c","a","l"," ","l","a","w","s">>
                  [] OTHER -> <<>>
            campusTerm ==
                IF detectedCampus = <<>> THEN <<>>
                ELSE IF norwegian THEN <<"c","a","m","p","u","s"," ">> \o detectedCampus[1]
                ELSE detectedCampus[1]
        IN  trim(q \o <<" ","B","I","S","O">>
                   \o (IF categoryTerm = <<>> THEN <<>> ELSE <<" ">> \o categoryTerm)
                   \o (IF campusTerm = <<>> THEN <<>> ELSE <<" ">> \o campusTerm))]

\* the combined results as rerankResults reads them: the score, the length
\* of the content and the metadata of each
WithPayload(results) ==
    [i \in DOMAIN results |->
        LET point == collection[results[i].id]
        IN  [id |-> results[i].id, score |-> results[i].score,
             searchType |-> results[i].searchType,
             contentLength |-> Len(ShapeContent(point.shape)) + point.padding,
             metadata |-> [isStructured |-> ShapeStructured(point.shape),
                           documentLanguage |-> point.documentLanguage,
                           isAuthoritative |-> point.isAuthoritative,
                           isLatest |-> point.isLatest,
                           isTranslation |-> FALSE, authorityPriority |-> 0,
                           sectionTitle |-> ShapeSectionTitle(point.shape),
                           ageDays |-> -1]]]

\* what the caller of searchDocuments reads of the results
SearchResults(results) ==
    [i \in DOMAIN results |->
        [id |-> results[i].id, score |-> results[i].score,
         searchType |-> results[i].searchType]]

\* searchDocuments(query, { k, filter }): the combined results, reranked;
\* language is what detectQueryLanguage answered for the query
searchDocuments(q, language, k, filter) ==
    SearchResults(rerankResults(WithPayload(CombinedResults(q, k, filter)),
                                AugmentedQuery[q, language], language))

NoQuery == <<>>

SearchIdle ==
    /\ collection = <<>>
    /\ query = NoQuery
    /\ queryLanguage = "norwegian"
    /\ searchK = 1
    /\ callerFilter = {}
    /\ answer = <<>>
    /\ pcSearch = "idle"

SearchInit ==
    /\ collection \in [1..MaxUnits -> Points]
    /\ query \in Queries
    /\ queryLanguage \in {"norwegian", "english"}
    /\ searchK \in 1..MaxK
    /\ callerFilter \in CallerFilters
    /\ answer = <<>>
    /\ pcSearch = "input"

\* the query '§ 6.3 vedtektene' over a collection that holds the structured
\* chunk of section 6.3 once, and chunks that mention 6.3
LocatorInit ==
    /\ collection \in {units \in [1..MaxUnits -> LocatorPoints] :
                          Cardinality({i \in DOMAIN units : units[i].shape = "section"}) = 1}
    /\ query = <<"§"," ","6",".","3"," ","v","e","d","t","e","k","t","e","n","e">>
    /\ queryLanguage \in {"norwegian", "english"}
    /\ searchK \in 1..MaxK
    /\ callerFilter = {}
    /\ answer = <<>>
    /\ pcSearch = "input"

Search ==
    /\ pcSearch = "input"
    /\ answer' = searchDocuments(query, queryLanguage, searchK, callerFilter)
    /\ pcSearch' = "done"
    /\ UNCHANGED <<collection, query, queryLanguage, searchK, callerFilter>>

(***************************************************************************)
(* The merge on its own: the two hit lists are drawn in MergeInit, Merge   *)
(* applies the merge in both orders.                                       *)
(***************************************************************************)
VARIABLES keywordHits, semanticHits, mergeK, mergedKS, mergedSK, pcMerge

mergeVars == <<keywordHits, semanticHits, mergeK, mergedKS, mergedSK, pcMerge>>

Hits == [id : {"a", "b", "c"}, score : {400, 700, 900}]

\* the lists of at most n elements of S
SeqsUpTo(S, n) == UNION {[1..m -> S] : m \in 0..n}

\* the client answers distinct points, the most similar first
SemanticLists ==
    {hits \in SeqsUpTo(Hits, MaxHits) :
        \A i, j \in DOMAIN hits :
            i < j => hits[i].id # hits[j].id /\ hits[i].score >= hits[j].score}

MergeIdle ==
    /\ keywordHits = <<>>
    /\ semanticHits = <<>>
    /\ mergeK = 1
    /\ mergedKS = <<>>
    /\ mergedSK = <<>>
    /\ pcMerge = "idle"

\* the merge runs when keywordResults is not empty
MergeInit ==
    /\ keywordHits \in SeqsUpTo(Hits, MaxHits) \ {<<>>}
    /\ semanticHits \in SemanticLists
    /\ mergeK \in 1..MaxK
    /\ mergedKS = <<>>
    /\ mergedSK = <<>>
    /\ pcMerge = "input"

Merge ==
    /\ pcMerge = "input"
    /\ mergedKS' = HybridMerge(keywordHits, semanticHits, mergeK)
    /\ mergedSK' = HybridMerge(semanticHits, keywordHits, mergeK)
    /\ pcMerge' = "done"
    /\ UNCHANGED <<keywordHits, semanticHits, mergeK>>

(***************************************************************************)
(* The reranking on its own: a list of one to MaxResults results is drawn  *)
(* in RerankInit, Rerank sorts it.                                         *)
(***************************************************************************)
VARIABLES rerankInput, rerankQueryLanguage, reranked, pcRerank

rerankVars == <<rerankInput, rerankQueryLanguage, reranked, pcRerank>>

RerankQuery == <<"l","o","k","a","l","e"," ","l","o","v","e","r"," ","O","s","l","o">>

\* the lists of one to MaxResults results, the i-th carrying the id i; each
\* is a short structured section of the Norwegian original, a chunk of an
\* English translation, a long chunk of a mixed document or a result
\* without metadata (aMetadata = {}), with the score 0.4 or 0.7
RerankLists ==
    LET profiles == {
            [contentLength |-> 80,
             metadata |-> [isStructured |-> TRUE, documentLanguage |-> "norwegian",
                           isAuthoritative |-> TRUE, isLatest |-> TRUE, isTranslation |-> FALSE,
                           authorityPriority |-> 100, sectionTitle |-> <<"O","s","l","o">>,
                           ageDays |-> 200]],
            [contentLength |-> 800,
             metadata |-> [isStructured |-> FALSE, documentLanguage |-> "english",
                           isAuthoritative |-> FALSE, isLatest |-> FALSE, isTranslation |-> TRUE,
                           authorityPriority |-> 70, sectionTitle |-> <<>>,
                           ageDays |-> 1000]],
            [contentLength |-> 4000,
             metadata |-> [isStructured |-> FALSE, documentLanguage |-> "mixed",
                           isAuthoritative |-> FALSE, isLatest |-> TRUE, isTranslation |-> FALSE,
                           authorityPriority |-> 200, sectionTitle |-> <<"V","a","l","g">>,
                           ageDays |-> 2000]],
            [contentLength |-> 200,
             metadata |-> [isStructured |-> FALSE, documentLanguage |-> "unknown",
                           isAuthoritative |-> FALSE, isLatest |-> FALSE, isTranslation |-> FALSE,
                           authorityPriority |-> 0, sectionTitle |-> <<>>,
                           ageDays |-> -1]] }
    IN  UNION {{[i \in 1..n |-> [id |-> i, score |-> score[i],
                                 contentLength |-> profile[i].contentLength,
                                 metadata |-> profile[i].metadata]] :
                    profile \in [1..n -> profiles], score \in [1..n -> {400, 700}]} :
               n \in 1..MaxResults}

RerankIdle ==
    /\ rerankInput = <<>>
    /\ rerankQueryLanguage = "norwegian"
    /\ reranked = <<>>
    /\ pcRerank = "idle"

RerankInit ==
    /\ rerankInput \in RerankLists
    /\ rerankQueryLanguage \in {"norwegian", "english"}
    /\ reranked = <<>>
    /\ pcRerank = "input"

Rerank ==
    /\ pcRerank = "input"
    /\ reranked' = rerankResults(rerankInput, RerankQuery, rerankQueryLanguage)
    /\ pcRerank' = "done"
    /\ UNCHANGED <<rerankInput, rerankQueryLanguage>>

(***************************************************************************)
(* DocumentProcessor: cleanText and the chunker.  Offsets are the ones of  *)
(* JavaScript, from 0: substring(a, b) is SubSeq(s, a + 1, b).             *)
(***************************************************************************)
Max(S) == CHOOSE x \in S : \A y \in S : y <= x

\* String.prototype.replace(/c+/g, r) for a class c of characters: every
\* run of characters of the class becomes r
ReplaceRuns(s, InClass(_), r) ==
    LET marked == [i \in DOMAIN s |->
                      IF ~InClass(s[i]) THEN s[i]
                      ELSE IF i > 1 /\ InClass(s[i - 1]) THEN "" ELSE r]
    IN  SelectSeq(marked, LAMBDA ch : ch # "")

\* cleanText with a first replace that leaves the line breaks alone
cleanTextKeepsLines(text) ==
    trim(ReplaceRuns(ReplaceRuns(text, LAMBDA ch : ch \in {" ", "\t"}, " "),
                     LAMBDA ch : ch = "\n", "\n"))

\* cleanText: /\s+/g to ' ', then /\n+/g to '\n', then trim
cleanText(text) ==
    trim(ReplaceRuns(ReplaceRuns(text, IsSpace, " "), LAMBDA ch : ch = "\n", "\n"))

\* the words of the seven sectionPatterns; the first has \s* before the
\* number, the others \s+, and the seventh is the bare number before \s+
\* and a capital letter
SectionWords == <<
    <<"§">>, <<"p","a","r","a","g","r","a","f">>, <<"a","v","s","n","i","t","t">>,
    <<"s","e","c","t","i","o","n">>, <<"p","a","r","a","g","r","a","p","h">>,
    <<"a","r","t","i","c","l","e">>, <<>> >>

\* the position of the first '\n' at or after position t (Len(s) + 1 when
\* there is none): where [^\n]*? stops before (?=\n|$)
LineEnd(s, t) == Min({q \in t..Len(s) : s[q] = "\n"} \cup {Len(s) + 1})

\* sectionPatterns[p] tried at position i of content (from 1): (?:^|\n)\s*
\* then the word, the number, the white space and the rest of the line;
\* ok tells whether it matches
MatchSection(s, i, p) ==
    LET n == Len(s)
        word == SectionWords[p]
        anchored == i = 1 \/ s[i - 1] = "\n" \/ (i <= n /\ s[i] = "\n")
        j == SkipSpaces(s, i)
        afterWord == j + Len(word)
        wordOk == /\ StartsWithCI(s, j, word)
                  /\ p \in 2..6 => afterWord <= n /\ IsSpace(s[afterWord])
        k == IF p = 7 THEN j ELSE SkipSpaces(s, afterWord)
        numberOk == k <= n /\ IsDigit(s[k])
        e == SkipDotDigits(s, SkipDigits(s, k))
        t == SkipSpaces(s, e)
        titleOk == p = 7 =>
                      /\ e <= n /\ IsSpace(s[e])
                      /\ t <= n /\ s[t] \in Range(UpperChars) \cup {"Æ", "Ø", "Å"}
        end == LineEnd(s, t)
    IN  IF anchored /\ wordOk /\ numberOk /\ titleOk
        THEN [ok |-> TRUE, number |-> SubSeq(s, j, e - 1),
              title |-> trim(SubSeq(s, t, end - 1)),
              startPos |-> i - 1, endPos |-> end - 1]
        ELSE [ok |-> FALSE, number |-> <<>>, title |-> <<>>, startPos |-> 0, endPos |-> 0]

\* while ((match = pattern.exec(content)) !== null): the matches of
\* sectionPatterns[p] from position `from` on
RECURSIVE FindSections(_, _, _)
FindSections(s, p, from) ==
    LET starts == {i \in from..Len(s) :
                      /\ i = 1 \/ s[i - 1] = "\n" \/ s[i] = "\n"
                      /\ MatchSection(s, i, p).ok}
    IN  IF starts = {} THEN <<>>
        ELSE LET match == MatchSection(s, Min(starts), p)
             IN  <<match>> \o FindSections(s, p, match.endPos + 1)

\* String.prototype.split('\n')
SplitLines(s) ==
    LET breaks == {i \in DOMAIN s : s[i] = "\n"}
        count == Cardinality(breaks)
        Break(k) == CHOOSE i \in breaks : Cardinality({b \in breaks : b <= i}) = k
    IN  [k \in 1..(count + 1) |->
            SubSeq(s, IF k = 1 THEN 1 ELSE Break(k - 1) + 1,
                      IF k = count + 1 THEN Len(s) ELSE Break(k) - 1)]

\* lines.join('\n') + '\n'
RECURSIVE JoinLines(_)
JoinLines(lines) ==
    IF lines = <<>> THEN <<>> ELSE Head(lines) \o <<"\n">> \o JoinLines(Tail(lines))

\* the loop of splitLongSection from line i on (lines from 0, as in the code)
RECURSIVE SplitLoop(_, _, _, _, _, _)
SplitLoop(lines, i, parts, currentChunk, currentStart, section) ==
    LET header == lines[1]
        part == [content |-> trim(currentChunk), chunkIndex |-> 0,
                 startChar |-> currentStart, endChar |-> currentStart + Len(currentChunk),
                 sectionNumber |-> section.number, sectionTitle |-> section.title,
                 isStructured |-> TRUE, chunkType |-> "section_part"]
    IN  IF i >= Len(lines)
        THEN (IF Len(currentChunk) > Len(header) + 50 THEN Append(parts, part) ELSE parts)
        ELSE LET line == lines[i + 1]
                 potentialChunk == currentChunk \o line \o <<"\n">>
                 overlapLines == SubSeq(lines, Max({0, i - 3}) + 1, i)
                 restarted == header \o <<"\n">> \o JoinLines(overlapLines) \o line \o <<"\n">>
             IN  IF Len(potentialChunk) > 1500 /\ Len(currentChunk) > Len(header) + 100
                 THEN SplitLoop(lines, i + 1, Append(parts, part), restarted,
                                currentStart + Len(restarted) - 200, section)
                 ELSE SplitLoop(lines, i + 1, parts, potentialChunk, currentStart, section)

splitLongSection(sectionContent, section, baseStartPos) ==
    LET lines == SplitLines(sectionContent)
    IN  SplitLoop(lines, 1, <<>>, lines[1] \o <<"\n">>, baseStartPos, section)

\* the loop of createStructureAwareChunks over foundSections, from section i
RECURSIVE SectionLoop(_, _, _, _)
SectionLoop(content, foundSections, i, made) ==
    IF i > Len(foundSections) THEN made
    ELSE LET section == foundSections[i]
             contentStart == section.startPos
             contentEnd == IF i < Len(foundSections) THEN foundSections[i + 1].startPos
                           ELSE Len(content)
             whole == trim(SubSeq(content, contentStart + 1, contentEnd))
             extendedEnd == Min({contentEnd + 500, Len(content)})
             sectionContent == IF Len(whole) < 50
                               THEN trim(SubSeq(content, contentStart + 1, extendedEnd))
                               ELSE whole
             subChunks == splitLongSection(sectionContent, section, contentStart)
             chunkIndex == Len(made)
         IN  SectionLoop(content, foundSections, i + 1,
                IF Len(sectionContent) > 2000
                THEN made \o [k \in DOMAIN subChunks |->
                                 [subChunks[k] EXCEPT !.chunkIndex = chunkIndex + k - 1]]
                ELSE Append(made,
                        [content |-> sectionContent, chunkIndex |-> chunkIndex,
                         startChar |-> contentStart, endChar |-> contentEnd,
                         sectionNumber |-> section.number, sectionTitle |-> section.title,
                         isStructured |-> TRUE, chunkType |-> "section"]))

\* foundSections.sort((a, b) => a.startPos - b.startPos): the sort is stable
SortByStartPos(found) ==
    LET Before(a, b) == \/ found[a].startPos < found[b].startPos
                        \/ found[a].startPos = found[b].startPos /\ a < b
    IN  [r \in DOMAIN found |->
            found[CHOOSE a \in DOMAIN found :
                    Cardinality({b \in DOMAIN found : Before(b, a)}) = r - 1]]

\* createStructureAwareChunks: the matches of the seven patterns, sorted by
\* startPos, then one chunk or more for each
createStructureAwareChunks(content) ==
    SectionLoop(content,
                SortByStartPos(FindSections(content, 1, 1) \o FindSections(content, 2, 1)
                               \o FindSections(content, 3, 1) \o FindSections(content, 4, 1)
                               \o FindSections(content, 5, 1) \o FindSections(content, 6, 1)
                               \o FindSections(content, 7, 1)),
                1, <<>>)

\* chunkContent.lastIndexOf(sub) for chunkContent = content.substring(startIndex, endIndex)
LastIndexOf(content, startIndex, endIndex, sub) ==
    Max({-1} \cup {pos \in 0..(endIndex - startIndex - Len(sub)) :
                      \A k \in 1..Len(sub) : content[startIndex + pos + k] = sub[k]})

\* the while loop of createSemanticChunks
RECURSIVE SemanticLoop(_, _, _)
SemanticLoop(content, startIndex, made) ==
    IF startIndex >= Len(content) THEN made
    ELSE LET endIndex == Min({startIndex + chunkSize, Len(content)})
             boundaries == <<LastIndexOf(content, startIndex, endIndex, <<"\n", "\n">>),
                             LastIndexOf(content, startIndex, endIndex, <<".", " ">>),
                             LastIndexOf(content, startIndex, endIndex, <<".", "\n">>),
                             LastIndexOf(content, startIndex, endIndex, <<"\n">>)>>
             \* boundaries.find(pos => pos > startIndex + chunkSize * 0.6)
             found == SelectSeq(boundaries,
                                LAMBDA pos : 10 * pos > 10 * startIndex + 6 * chunkSize)
             aligned == endIndex < Len(content) /\ found # <<>> /\ found[1] > 0
             cut == IF aligned THEN startIndex + found[1] + 1 ELSE endIndex
             trimmedContent == trim(SubSeq(content, startIndex + 1, cut))
             chunkIndex == Len(made)
             next == IF Len(trimmedContent) > 50
                     THEN Append(made,
                             [content |-> trimmedContent, chunkIndex |-> chunkIndex,
                              startChar |-> startIndex, endChar |-> cut,
                              sectionNumber |-> <<>>, sectionTitle |-> <<>>,
                              isStructured |-> FALSE, chunkType |-> "semantic"])
                     ELSE made
         IN  SemanticLoop(content,
                          IF cut < Len(content) THEN Max({0, cut - overlap}) ELSE cut,
                          next)

createSemanticChunks(content) == SemanticLoop(content, 0, <<>>)

\* createChunks without the early return: the chunks of both passes
createChunksOfBothPasses(content) ==
    createStructureAwareChunks(content) \o createSemanticChunks(content)

\* createChunks: the structure-aware chunks if there are any, else the
\* semantic ones
createChunks(content) ==
    LET structureAwareChunks == createStructureAwareChunks(content)
    IN  IF Len(structureAwareChunks) > 0 THEN structureAwareChunks
        ELSE createSemanticChunks(content)

(***************************************************************************)
(* The document processor on its own: the extracted text is drawn in       *)
(* ChunkInit, ProcessText is processDocument after the extraction.         *)
(***************************************************************************)
VARIABLES extracted, normalized, docChunks, pcChunk

chunkVars == <<extracted, normalized, docChunks, pcChunk>>

\* the pieces the extracted texts are made of: two section headers, a line
\* break, a word of 900 characters, a sentence of 900 characters that ends
\* with '. ', and a sentence of 60 characters
TextBlocks ==
    LET word(n) == [i \in 1..n |-> "x"]
    IN  << <<"§"," ","1"," ","F","o","r","m","a","a","l">>,
           <<"§"," ","2"," ","V","a","l","g">>,
           <<"\n">>,
           word(900),
           word(898) \o <<".", " ">>,
           word(58) \o <<".", " ">> >>

RECURSIVE Concat(_)
Concat(blocks) == IF blocks = <<>> THEN <<>> ELSE TextBlocks[Head(blocks)] \o Concat(Tail(blocks))

ExtractedTexts ==
    {Concat(blocks) : blocks \in UNION {[1..m -> DOMAIN TextBlocks] : m \in 1..MaxBlocks}}

ChunkIdle ==
    /\ extracted = <<>>
    /\ normalized = <<>>
    /\ docChunks = <<>>
    /\ pcChunk = "idle"

ChunkInit ==
    /\ extracted \in ExtractedTexts
    /\ normalized = <<>>
    /\ docChunks = <<>>
    /\ pcChunk = "input"

\* processDocument, from the extracted content on
ProcessText ==
    /\ pcChunk = "input"
    /\ normalized' = cleanText(extracted)
    /\ docChunks' = createChunks(cleanText(extracted))
    /\ pcChunk' = "done"
    /\ UNCHANGED extracted

(***************************************************************************)
(* QdrantVectorStore.withRetry: the loop around one operation of the       *)
(* store.  Time is in milliseconds; the operation takes some time and a    *)
(* timer fires at its time or later, never before.                         *)
(***************************************************************************)
VARIABLES attempt, lastError, now, wakeAt, retryLog, outcome, pcRetry

retryVars == <<attempt, lastError, now, wakeAt, retryLog, outcome, pcRetry>>

\* the time an operation takes, and the time a timer fires late
Latencies == {0, 200, 400}

\* a delay that does not grow
ConstantDelay(n) == INITIAL_DELAY

\* INITIAL_DELAY * Math.pow(BACKOFF_MULTIPLIER, attempt - 1)
Delay(n) ==
    LET RECURSIVE pow(_, _)
        pow(base, e) == IF e = 0 THEN 1 ELSE base * pow(base, e - 1)
    IN  INITIAL_DELAY * pow(BACKOFF_MULTIPLIER, n - 1)

\* one turn of the loop: the operation is awaited; its result is returned,
\* or its error is kept, and thrown after the last attempt, or the timer
\* of the delay is set
TryOperation(succeeds) ==
    /\ pcRetry = "loop"
    /\ attempt <= MAX_ATTEMPTS
    /\ \E took \in Latencies :
        LET error == <<"error", attempt>>
        IN  /\ now' = now + took
            /\ retryLog' = Append(retryLog,
                               [attempt |-> attempt, startedAt |-> now,
                                endedAt |-> now + took, succeeded |-> succeeds])
            /\ IF succeeds
               THEN /\ outcome' = [kind |-> "returned", value |-> <<"result", attempt>>]
                    /\ pcRetry' = "returned"
                    /\ UNCHANGED <<lastError, wakeAt>>
               ELSE /\ lastError' = error
                    /\ IF attempt = MAX_ATTEMPTS
                       THEN /\ outcome' = [kind |-> "thrown", value |-> lastError']
                            /\ pcRetry' = "thrown"
                            /\ UNCHANGED wakeAt
                       ELSE /\ wakeAt' = now + took + Delay(attempt)
                            /\ pcRetry' = "waiting"
                            /\ UNCHANGED outcome
    /\ UNCHANGED attempt

\* the timer of the delay fires and the loop goes to its next turn
TimerFires ==
    /\ pcRetry = "waiting"
    /\ \E late \in Latencies : now' = wakeAt + late
    /\ attempt' = attempt + 1
    /\ pcRetry' = "loop"
    /\ UNCHANGED <<lastError, wakeAt, retryLog, outcome>>

RetryIdle ==
    /\ attempt = 0
    /\ lastError = <<>>
    /\ now = 0
    /\ wakeAt = 0
    /\ retryLog = <<>>
    /\ outcome = [kind |-> "none", value |-> <<>>]
    /\ pcRetry = "idle"

RetryInit ==
    /\ attempt = 1
    /\ lastError = <<>>
    /\ now \in Latencies
    /\ wakeAt = 0
    /\ retryLog = <<>>
    /\ outcome = [kind |-> "none", value |-> <<>>]
    /\ pcRetry = "loop"

(***************************************************************************)
(* QdrantVectorStore.addDocuments and getCollectionStats.  The collection  *)
(* is the set of its points; upsert replaces the point of an id it holds.  *)
(***************************************************************************)
VARIABLES storeInput, points, callLog, statsCount

storeVars == <<storeInput, points, callLog, statsCount>>

\* the id processDocument gives a unit: `${document.id}_chunk_${chunk.chunkIndex}`
UnitId(documentId, chunkIndex) ==
    LET RECURSIVE decimal(_)
        decimal(n) ==
            (IF n < 10 THEN <<>> ELSE decimal(n \div 10))
                \o <<(<<"0","1","2","3","4","5","6","7","8","9">>)[(n % 10) + 1]>>
    IN  documentId \o <<"_","c","h","u","n","k","_">> \o decimal(chunkIndex)

\* an identifier made anew at every call, as uuidv4 makes them
uuidv4(name) == [namespace |-> "none", name |-> <<name, Len(callLog)>>]

\* uuidv5(name, SHAREPOINT_NAMESPACE): the identifier is a function of the
\* namespace and of the name, and of nothing else
uuidv5(name) == [namespace |-> "6ba7b810-9dad-11d1-80b4-00c04fd430c8", name |-> name]

\* items: the documents with a text, trimmed and cut to
\* MAX_TOKENS_PER_INPUT * 4 characters; tokenCount is what the tokenizer
\* counts in it
PrepareItems(docs) ==
    LET prepared == [i \in DOMAIN docs |->
                        LET text == trim(docs[i].content)
                        IN  [doc |-> docs[i],
                             text |-> Slice(text, MAX_TOKENS_PER_INPUT * 4),
                             tokenCount |-> docs[i].tokenCount]]
    IN  SelectSeq(prepared, LAMBDA item : item.text # <<>>)

\* a loop that starts a new batch for the tokens only
RECURSIVE CreateBatchesByTokens(_, _, _, _)
CreateBatchesByTokens(items, idx, batches, current) ==
    IF idx > Len(items)
    THEN (IF Len(current.indices) > 0 THEN Append(batches, current) ELSE batches)
    ELSE IF /\ current.tokenSum + items[idx].tokenCount > MAX_TOKENS_PER_REQUEST
            /\ Len(current.indices) > 0
    THEN CreateBatchesByTokens(items, idx + 1, Append(batches, current),
            [indices |-> <<idx - 1>>, texts |-> <<items[idx].text>>,
             tokenSum |-> items[idx].tokenCount])
    ELSE CreateBatchesByTokens(items, idx + 1, batches,
            [indices |-> Append(current.indices, idx - 1),
             texts |-> Append(current.texts, items[idx].text),
             tokenSum |-> current.tokenSum + items[idx].tokenCount])

\* the loop that creates the batches, from the item idx on (items from 1;
\* the indices pushed are the ones of the code, from 0): the current batch
\* is pushed and a new one started when it is full, then the item is put
\* into the current batch
RECURSIVE CreateBatches(_, _, _, _)
CreateBatches(items, idx, batches, current) ==
    IF idx > Len(items)
    THEN (IF Len(current.indices) > 0 THEN Append(batches, current) ELSE batches)
    ELSE IF /\ \/ Len(current.indices) >= MAX_ITEMS_PER_BATCH
               \/ current.tokenSum + items[idx].tokenCount > MAX_TOKENS_PER_REQUEST
            /\ Len(current.indices) > 0
    THEN CreateBatches(items, idx + 1, Append(batches, current),
            [indices |-> <<idx - 1>>, texts |-> <<items[idx].text>>,
             tokenSum |-> items[idx].tokenCount])
    ELSE CreateBatches(items, idx + 1, batches,
            [indices |-> Append(current.indices, idx - 1),
             texts |-> Append(current.texts, items[idx].text),
             tokenSum |-> current.tokenSum + items[idx].tokenCount])

\* embedMany({ values }): one embedding for each value, in the order of
\* the values; the embedding of a text is a function of the text
embedMany(values) == [i \in DOMAIN values |-> <<"embedding", values[i]>>]

\* allEmbeddings after the loop over the batches: the slot batch.indices[i]
\* holds the i-th embedding of the batch, the last one written if several
\* were, and a slot never written is undefined
AllEmbeddings(batches, n) ==
    [idx \in 0..(n - 1) |->
        LET slots == {slot \in UNION {{<<b, i>> : i \in DOMAIN batches[b].indices} :
                                          b \in DOMAIN batches} :
                         batches[slot[1]].indices[slot[2]] = idx}
            last == CHOOSE slot \in slots :
                        \A other \in slots :
                            \/ other[1] < slot[1]
                            \/ other[1] = slot[1] /\ other[2] <= slot[2]
        IN  IF slots = {} THEN <<"undefined">>
            ELSE embedMany(batches[last[1]].texts)[last[2]]]

\* client.upsert: the points given replace the points of their ids, the
\* last one of an id given twice stays
Upsert(collectionPoints, given) ==
    LET ids == {given[i].id : i \in DOMAIN given}
        last(id) == given[Max({i \in DOMAIN given : given[i].id = id})]
    IN  {pt \in collectionPoints : pt.id \notin ids} \cup {last(id) : id \in ids}

\* client.count(collectionName, { exact: true })
Count == Cardinality(points)

\* addDocuments(documents): it returns after the upsert, or an error of the
\* embedding or of the upsert comes back after the retries and nothing is
\* written; with no document or no item it returns at once
AddDocuments(result) ==
    LET items == PrepareItems(storeInput)
        batches == CreateBatches(items, 1, <<>>,
                                 [indices |-> <<>>, texts |-> <<>>, tokenSum |-> 0])
        allEmbeddings == AllEmbeddings(batches, Len(items))
        newPoints == [i \in DOMAIN items |->
                         [id |-> uuidv5(items[i].doc.id),
                          vector |-> allEmbeddings[i - 1],
                          text |-> items[i].text,
                          originalId |-> items[i].doc.id,
                          processingTime |-> Len(callLog) + 1]]
        written == IF result = "ok" THEN Upsert(points, newPoints) ELSE points
    IN  /\ Len(callLog) < MaxCalls
        /\ items = <<>> => result = "ok"
        /\ points' = written
        /\ callLog' = Append(callLog,
                        [result |-> result, batches |-> batches,
                         ids |-> [i \in DOMAIN items |-> newPoints[i].id],
                         tokenCounts |-> [i \in DOMAIN items |-> items[i].tokenCount],
                         count |-> Cardinality(written)])
        /\ UNCHANGED <<storeInput, statsCount>>

\* getCollectionStats(): the count of the collection
GetCollectionStats ==
    /\ statsCount' = Count
    /\ UNCHANGED <<storeInput, points, callLog>>

\* the documents of a call: units of the documents A and B, with a text of
\* their own or a blank content, of few tokens, of 4000 or of 7500
StoreDocuments ==
    {[id |-> UnitId(documentId, chunkIndex),
      content |-> IF blank THEN <<" ">>
                  ELSE <<" ","t","e","k","s","t"," ">> \o UnitId(documentId, chunkIndex),
      tokenCount |-> tokenCount] :
        documentId \in {<<"A">>, <<"B">>}, chunkIndex \in 0..1,
        blank \in BOOLEAN, tokenCount \in {5, 4000, 7500}}

\* the units of a long document: as many as a batch holds, one more or two
\* more, some of them of 4000 tokens, the third one blank or not
LongDocuments ==
    {[i \in 1..n |->
        [id |-> UnitId(<<"A">>, i - 1),
         content |-> IF blank /\ i = 3 THEN <<" ">>
                     ELSE <<"t","e","k","s","t"," ">> \o UnitId(<<"A">>, i - 1),
         tokenCount |-> IF i \in heavy THEN 4000 ELSE 5]] :
        n \in {MAX_ITEMS_PER_BATCH, MAX_ITEMS_PER_BATCH + 1, MAX_ITEMS_PER_BATCH + 2},
        heavy \in {{}, {1, 2}, {MAX_ITEMS_PER_BATCH, MAX_ITEMS_PER_BATCH + 1}},
        blank \in BOOLEAN}

StoreIdle ==
    /\ storeInput = <<>>
    /\ points = {}
    /\ callLog = <<>>
    /\ statsCount = 0

StoreInit ==
    /\ storeInput \in UNION {[1..n -> StoreDocuments] : n \in 0..MaxUnits} \cup LongDocuments
    /\ points = {}
    /\ callLog = <<>>
    /\ statsCount = 0

(***************************************************************************)
(* The indexing orchestrator (IndexingService) and the HTTP handlers of    *)
(* the index route.  JavaScript runs one callback at a time, so every      *)
(* action is the code between two suspension points (await).               *)
(***************************************************************************)
VARIABLES
    folder,     \* the documents in the SharePoint folder
    jobs,       \* the IndexingJob objects, by job id
    registry,   \* registry[j]: the keys of the Map `jobs` of the IndexingService
                \* instance that started job j
    run,        \* where processIndexingJob(j) stands, and its local variables
                \* (started is history: the documents handed to processDocument)
    index,      \* the points of the vector store collection: <<documentId, chunkIndex>>
    response,   \* the answer of the last HTTP request
    cleared,    \* history: a clear-index request was served
    statusLog   \* history: every value written to job.status, in order

jobVars == <<folder, jobs, registry, run, index, response, cleared, statusLog>>

\* the documents in the folder when the process starts: a video, version 7.0
\* of the local laws and the English copy
InitialFolder == {"M1", "N70", "E71"}

\* the documents that are put into the folder while the process runs
FolderPool == {"N71"}

\* the documents a job can come to process
JobDocs == (InitialFolder \cup FolderPool) \ VideoIds

\* the order in which listDocuments answers
ListingOrder == <<"M1", "N70", "N71", "E71">>

\* ./content-types and ./mime-utils are not among the source files
isSupportedContentType(contentType, name) == contentType # "video/mp4"

\* no document of the model has a generic content type to correct
correctMimeType(contentType, name) == contentType

\* sharePointService.listDocuments(siteId, folderPath, recursive)
listDocuments == SelectSeq(ListingOrder, LAMBDA id : id \in folder)

\* await createIndexingService(): a new IndexingService, whose Map `jobs` is
\* empty, around the process-wide vector store
createIndexingService == [jobs |-> {}]

\* the job object startIndexing creates, after processIndexingJob has run up
\* to its first await (status 'pending', then 'processing')
NewJob ==
    [status |-> "processing", siteName |-> "Unknown", totalDocuments |-> 0,
     processedDocuments |-> 0, failedDocuments |-> 0, endTime |-> "unset",
     error |-> ""]

NoTasks == [id \in {} |-> 0]

NewRun(batchSize) ==
    [phase |-> "listSites", batchSize |-> batchSize, todo |-> <<>>, i |-> 0,
     tasks |-> NoTasks, failedIds |-> {}, dropped |-> {}, started |-> <<>>]

\* the catch block of processIndexingJob, and the catch callback of startIndexing
FailJob(job, message) ==
    [job EXCEPT !.status = "failed", !.error = message, !.endTime = "set"]

\* job.status = 'completed'; job.endTime = new Date()
CompleteJob(job) == [job EXCEPT !.status = "completed", !.endTime = "set"]

\* processDocument up to its first await: the document-level guard
processDocumentStart(id) ==
    IF ~isSupportedContentType(
            correctMimeType(Library[id].contentType, Library[id].name), Library[id].name)
    THEN [step |-> "settled", settled |-> "fulfilled", chunks |-> 0, error |-> TRUE]
    ELSE [step |-> "download", settled |-> "pending", chunks |-> 0, error |-> FALSE]

\* the catch block of processDocument: it returns a result that carries the error
processDocumentCatch(task) ==
    [task EXCEPT !.step = "settled", !.settled = "fulfilled", !.error = TRUE]

\* the return of processDocument after addDocuments
processDocumentReturn(task) ==
    [task EXCEPT !.step = "settled", !.settled = "fulfilled"]

\* prioritizedDocuments.slice(i): a slice with no end
BatchSliceToEnd(todo, i, batchSize) == SubSeq(todo, i + 1, Len(todo))

\* prioritizedDocuments.slice(i, i + batchSize)
BatchSlice(todo, i, batchSize) ==
    SubSeq(todo, i + 1, IF i + batchSize < Len(todo) THEN i + batchSize ELSE Len(todo))

\* batch.map(doc => this.processDocument(doc, jobId))
StartBatch(todo, i, batchSize) ==
    [id \in Range(BatchSlice(todo, i, batchSize)) |-> processDocumentStart(id)]

\* the jobs whose processIndexingJob promise is not settled and handled yet
InFlight == {j \in DOMAIN run : run[j].phase \notin {"completed", "failed"}}

\* POST: createIndexingService(), startIndexing(options)
StartIndexing(batchSize) ==
    LET j == Cardinality(DOMAIN jobs) + 1
        service == createIndexingService
    IN  /\ j <= MaxJobs
        /\ Cardinality(InFlight) < MaxRunning
        /\ jobs' = jobs @@ (j :> NewJob)
        /\ registry' = registry @@ (j :> (service.jobs \cup {j}))
        /\ run' = run @@ (j :> NewRun(batchSize))
        /\ statusLog' = statusLog @@ (j :> <<"pending", "processing">>)
        /\ response' = [op |-> "startJob", jobId |-> j, success |-> TRUE, jobs |-> {}]
        /\ UNCHANGED <<folder, index, cleared>>

\* a catch block that throws the error again and records nothing
JobThrowsUnrecorded(j, message) ==
    /\ run' = [run EXCEPT ![j].phase = "rejected"]
    /\ UNCHANGED <<jobs, statusLog>>

\* the catch block of processIndexingJob; the error is thrown again
JobThrows(j, message) ==
    /\ jobs' = [jobs EXCEPT ![j] = FailJob(@, message)]
    /\ statusLog' = [statusLog EXCEPT ![j] = Append(@, "failed")]
    /\ run' = [run EXCEPT ![j].phase = "rejected"]

\* await this.sharePointService.listSites() answers
ListSitesReturns(j, result) ==
    /\ j \in DOMAIN run /\ run[j].phase = "listSites"
    /\ CASE result = "found" ->
              /\ jobs' = [jobs EXCEPT ![j].siteName = "BISO"]
              /\ run' = [run EXCEPT ![j].phase = "listDocuments"]
              /\ UNCHANGED statusLog
         [] result = "missing" ->
              /\ run' = [run EXCEPT ![j].phase = "getSiteById"]
              /\ UNCHANGED <<jobs, statusLog>>
         [] result = "throws" -> JobThrows(j, "listSites failed")
    /\ UNCHANGED <<folder, registry, index, response, cleared>>

\* await this.sharePointService.getSiteById(options.siteId) answers; an
\* error is swallowed
GetSiteByIdReturns(j, result) ==
    /\ j \in DOMAIN run /\ run[j].phase = "getSiteById"
    /\ jobs' = IF result = "found" THEN [jobs EXCEPT ![j].siteName = "BISO"] ELSE jobs
    /\ run' = [run EXCEPT ![j].phase = "listDocuments"]
    /\ UNCHANGED <<folder, registry, index, response, cleared, statusLog>>

\* await this.sharePointService.listDocuments(...) answers: filter, prioritize,
\* and the first batch is started (or the job completes at once)
ListDocumentsReturns(j, result) ==
    /\ j \in DOMAIN run /\ run[j].phase = "listDocuments"
    /\ IF result = "throws" THEN JobThrows(j, "listDocuments failed")
       ELSE LET supportedDocuments ==
                    SelectSeq(listDocuments, LAMBDA id :
                        isSupportedContentType(Library[id].contentType, Library[id].name))
                prioritizedDocuments == prioritizeDocuments(supportedDocuments)
            IN  IF prioritizedDocuments = <<>>
                THEN /\ jobs' = [jobs EXCEPT ![j] = CompleteJob(@)]
                     /\ statusLog' = [statusLog EXCEPT ![j] = Append(@, "completed")]
                     /\ run' = [run EXCEPT ![j].phase = "completed"]
                ELSE /\ jobs' = [jobs EXCEPT ![j].totalDocuments = Len(prioritizedDocuments)]
                     /\ run' = [run EXCEPT ![j] =
                            [@ EXCEPT !.phase = "batch",
                                      !.todo = prioritizedDocuments,
                                      !.i = 0,
                                      !.tasks = StartBatch(prioritizedDocuments, 0, run[j].batchSize),
                                      !.started = BatchSlice(prioritizedDocuments, 0, run[j].batchSize),
                                      !.dropped = Range(supportedDocuments) \ Range(prioritizedDocuments)]]
                     /\ UNCHANGED statusLog
    /\ UNCHANGED <<folder, registry, index, response, cleared>>

\* a download whose error leaves processDocument and the batch, and ends the job
DownloadReturnsOrRejects(j, id, result) ==
    /\ j \in DOMAIN run /\ run[j].phase = "batch"
    /\ id \in DOMAIN run[j].tasks /\ run[j].tasks[id].step = "download"
    /\ IF result = "ok"
       THEN /\ run' = [run EXCEPT ![j].tasks[id].step = "process"]
            /\ UNCHANGED <<jobs, statusLog>>
       ELSE JobThrows(j, "download failed")
    /\ UNCHANGED <<folder, registry, index, response, cleared>>

\* await this.sharePointService.downloadDocument(...) answers in processDocument
DownloadReturns(j, id, result) ==
    /\ j \in DOMAIN run /\ run[j].phase = "batch"
    /\ id \in DOMAIN run[j].tasks /\ run[j].tasks[id].step = "download"
    /\ run' = IF result = "ok"
              THEN [run EXCEPT ![j].tasks[id].step = "process"]
              ELSE [run EXCEPT ![j].tasks[id] = processDocumentCatch(@),
                               ![j].failedIds = @ \cup {id}]
    /\ UNCHANGED <<folder, jobs, registry, index, response, cleared, statusLog>>

\* await this.documentProcessor.processDocument(...) answers: it throws, or
\* it returns the n chunks of the document (none for a document without text)
ProcessReturns(j, id, result, n) ==
    /\ j \in DOMAIN run /\ run[j].phase = "batch"
    /\ id \in DOMAIN run[j].tasks /\ run[j].tasks[id].step = "process"
    /\ run' = IF result = "ok"
              THEN [run EXCEPT ![j].tasks[id].step = "addDocuments",
                               ![j].tasks[id].chunks = n]
              ELSE [run EXCEPT ![j].tasks[id] = processDocumentCatch(@),
                               ![j].failedIds = @ \cup {id}]
    /\ UNCHANGED <<folder, jobs, registry, index, response, cleared, statusLog>>

\* the ids of the units processDocument makes: `${document.id}_chunk_${chunk.chunkIndex}`
UnitIds(id, n) == {<<id, c>> : c \in 0..(n - 1)}

\* await this.vectorStore.addDocuments(vectorDocuments) answers: the upsert
\* was done, or an error comes back after the retries; with no unit to add
\* it returns at once
AddDocumentsReturns(j, id, result) ==
    /\ j \in DOMAIN run /\ run[j].phase = "batch"
    /\ id \in DOMAIN run[j].tasks /\ run[j].tasks[id].step = "addDocuments"
    /\ run[j].tasks[id].chunks = 0 => result = "ok"
    /\ IF result = "ok"
       THEN /\ index' = index \cup UnitIds(id, run[j].tasks[id].chunks)
            /\ run' = [run EXCEPT ![j].tasks[id] = processDocumentReturn(@)]
       ELSE /\ index' = index
            /\ run' = [run EXCEPT ![j].tasks[id] = processDocumentCatch(@),
                                  ![j].failedIds = @ \cup {id}]
    /\ UNCHANGED <<folder, jobs, registry, response, cleared, statusLog>>

\* the counters updated with the documents whose result carries an error
\* counted as failed too
BatchSettledCountsErrors(j) ==
    /\ j \in DOMAIN run /\ run[j].phase = "batch"
    /\ \A id \in DOMAIN run[j].tasks : run[j].tasks[id].step = "settled"
    /\ LET tasks == run[j].tasks
           fulfilled == {id \in DOMAIN tasks : tasks[id].settled = "fulfilled"}
           rejected == {id \in DOMAIN tasks : tasks[id].settled # "fulfilled" \/ tasks[id].error}
           counted == [jobs[j] EXCEPT
                          !.processedDocuments = @ + Cardinality(fulfilled),
                          !.failedDocuments = @ + Cardinality(rejected)]
       IN  IF run[j].i + run[j].batchSize < Len(run[j].todo)
           THEN /\ jobs' = [jobs EXCEPT ![j] = counted]
                /\ run' = [run EXCEPT ![j].phase = "delay", ![j].tasks = NoTasks]
                /\ UNCHANGED statusLog
           ELSE /\ jobs' = [jobs EXCEPT ![j] = CompleteJob(counted)]
                /\ run' = [run EXCEPT ![j].phase = "completed", ![j].tasks = NoTasks]
                /\ statusLog' = [statusLog EXCEPT ![j] = Append(@, "completed")]
    /\ UNCHANGED <<folder, registry, index, response, cleared>>

\* await Promise.allSettled(promises) answers: the counters are updated, and
\* the job waits for the next batch or completes
BatchSettled(j) ==
    /\ j \in DOMAIN run /\ run[j].phase = "batch"
    /\ \A id \in DOMAIN run[j].tasks : run[j].tasks[id].step = "settled"
    /\ LET tasks == run[j].tasks
           fulfilled == {id \in DOMAIN tasks : tasks[id].settled = "fulfilled"}
           rejected == {id \in DOMAIN tasks : tasks[id].settled # "fulfilled"}
           counted == [jobs[j] EXCEPT
                          !.processedDocuments = @ + Cardinality(fulfilled),
                          !.failedDocuments = @ + Cardinality(rejected)]
       IN  IF run[j].i + run[j].batchSize < Len(run[j].todo)
           THEN /\ jobs' = [jobs EXCEPT ![j] = counted]
                /\ run' = [run EXCEPT ![j].phase = "delay", ![j].tasks = NoTasks]
                /\ UNCHANGED statusLog
           ELSE /\ jobs' = [jobs EXCEPT ![j] = CompleteJob(counted)]
                /\ run' = [run EXCEPT ![j].phase = "completed", ![j].tasks = NoTasks]
                /\ statusLog' = [statusLog EXCEPT ![j] = Append(@, "completed")]
    /\ UNCHANGED <<folder, registry, index, response, cleared>>

\* a delay that never ends
DelayGoesOn(j) ==
    /\ j \in DOMAIN run /\ run[j].phase = "delay"
    /\ UNCHANGED <<folder, jobs, registry, run, index, response, cleared, statusLog>>

\* the 1000 ms between two batches are over: the next batch is started
DelayElapsed(j) ==
    /\ j \in DOMAIN run /\ run[j].phase = "delay"
    /\ run' = [run EXCEPT ![j] =
            [@ EXCEPT !.phase = "batch",
                      !.i = @ + run[j].batchSize,
                      !.tasks = StartBatch(run[j].todo, run[j].i + run[j].batchSize,
                                           run[j].batchSize),
                      !.started = @ \o BatchSlice(run[j].todo, run[j].i + run[j].batchSize,
                                                  run[j].batchSize)]]
    /\ UNCHANGED <<folder, jobs, registry, index, response, cleared, statusLog>>

\* the catch callback startIndexing attached to processIndexingJob
StartIndexingCatch(j) ==
    /\ j \in DOMAIN run /\ run[j].phase = "rejected"
    /\ IF j \in registry[j]
       THEN /\ jobs' = [jobs EXCEPT ![j] = FailJob(@, @.error)]
            /\ statusLog' = [statusLog EXCEPT ![j] = Append(@, "failed")]
       ELSE UNCHANGED <<jobs, statusLog>>
    /\ run' = [run EXCEPT ![j].phase = "failed"]
    /\ UNCHANGED <<folder, registry, index, response, cleared>>

\* GET ?jobId=j: createIndexingService(), getJobStatus(jobId)
GetJob(j) ==
    LET service == createIndexingService
    IN  /\ j \in DOMAIN jobs
        /\ response' = [op |-> "getJob", jobId |-> 0, success |-> j \in service.jobs,
                        jobs |-> {}]
        /\ UNCHANGED <<folder, jobs, registry, run, index, cleared, statusLog>>

\* GET ?action=list: createIndexingService(), listJobs()
ListJobs ==
    LET service == createIndexingService
    IN  /\ response' = [op |-> "listJobs", jobId |-> 0, success |-> TRUE,
                        jobs |-> service.jobs]
        /\ UNCHANGED <<folder, jobs, registry, run, index, cleared, statusLog>>

\* DELETE ?action=clear: createIndexingService(), clearIndex(): the collection
\* is emptied and the Map `jobs` of the new service is cleared
ClearIndex(result) ==
    /\ IF result = "ok"
       THEN /\ index' = {}
            /\ cleared' = TRUE
            /\ response' = [op |-> "clear", jobId |-> 0, success |-> TRUE, jobs |-> {}]
       ELSE /\ response' = [op |-> "clear", jobId |-> 0, success |-> FALSE, jobs |-> {}]
            /\ UNCHANGED <<index, cleared>>
    /\ UNCHANGED <<folder, jobs, registry, run, statusLog>>

\* DeleteJob if it cancelled the job
DeleteJobCancels(j) ==
    /\ j \in DOMAIN jobs
    /\ jobs' = [jobs EXCEPT ![j] = FailJob(@, "cancelled")]
    /\ statusLog' = [statusLog EXCEPT ![j] = Append(@, "failed")]
    /\ response' = [op |-> "deleteJob", jobId |-> 0, success |-> TRUE, jobs |-> {}]
    /\ UNCHANGED <<folder, registry, run, index, cleared>>

\* DELETE ?action=job&jobId=j: "Job deletion not implemented yet"
DeleteJob(j) ==
    /\ j \in DOMAIN jobs
    /\ response' = [op |-> "deleteJob", jobId |-> 0, success |-> TRUE, jobs |-> {}]
    /\ UNCHANGED <<folder, jobs, registry, run, index, cleared, statusLog>>

\* somebody puts one more document into the folder
FolderAdd(id) ==
    /\ id \in FolderPool \ folder
    /\ folder' = folder \cup {id}
    /\ UNCHANGED <<jobs, registry, run, index, response, cleared, statusLog>>

NoResponse == [op |-> "none", jobId |-> 0, success |-> TRUE, jobs |-> {}]

JobsIdle ==
    /\ folder = {}
    /\ jobs = NoTasks
    /\ registry = NoTasks
    /\ run = NoTasks
    /\ index = {}
    /\ response = NoResponse
    /\ cleared = FALSE
    /\ statusLog = NoTasks

JobsInit ==
    /\ folder = InitialFolder
    /\ jobs = NoTasks
    /\ registry = NoTasks
    /\ run = NoTasks
    /\ index = {}
    /\ response = NoResponse
    /\ cleared = FALSE
    /\ statusLog = NoTasks

(***************************************************************************)
(* PUT ?action=reindex and IndexingService.reindexDocument.  The request   *)
(* is followed from one await to the next; `reindex` holds where it        *)
(* stands, the document it is about and what processDocument returned.     *)
(***************************************************************************)
VARIABLES reindex

reindexVars == <<reindex>>

NoReindex == [step |-> "idle", documentId |-> "none", deleted |-> FALSE,
              existingChunks |-> {},
              task |-> [step |-> "none", settled |-> "none", chunks |-> 0, error |-> FALSE]]

\* what search({ query: '', filter: { documentId }, k: 1000 }) can answer:
\* the units of the document in the collection, and k of them if there are
\* more, whichever the scroll comes to first (the documents of the model
\* have k + 1 units at most)
ExistingChunks(documentId) ==
    LET units == {unit \in index : unit[1] = documentId}
    IN  IF Cardinality(units) <= ReindexSearchK THEN {units}
        ELSE {units \ {unit} : unit \in units}

\* the catch block of PUT: an answer with success false and the message
PutCatch ==
    /\ response' = [op |-> "reindex", jobId |-> 0, success |-> FALSE, jobs |-> {}]
    /\ reindex' = [reindex EXCEPT !.step = "answered"]

\* processDocument has returned, with an error in its result or without:
\* reindexDocument drops the result and returns, and PUT answers
\* { success: true, message: 'Document reindexed successfully' }
ReindexReturns(task) ==
    /\ response' = [op |-> "reindex", jobId |-> 0, success |-> TRUE, jobs |-> {}]
    /\ reindex' = [reindex EXCEPT !.step = "answered", !.task = task]

\* reindexDocument calls processDocument, which returns at once for a
\* content type that is not supported and awaits the download otherwise
ReindexProcessDocument(documentId, deleted) ==
    LET task == processDocumentStart(documentId)
    IN  IF task.step = "settled"
        THEN /\ response' = [op |-> "reindex", jobId |-> 0, success |-> TRUE, jobs |-> {}]
             /\ reindex' = [reindex EXCEPT !.step = "answered", !.deleted = deleted,
                                           !.task = task]
        ELSE /\ reindex' = [reindex EXCEPT !.step = "download", !.deleted = deleted,
                                           !.task = task]
             /\ UNCHANGED response

\* PUT ?action=reindex: the body is parsed, and reindexDocument awaits
\* the listing of the site
PutReindex(documentId, valid) ==
    /\ reindex.step \in {"idle", "answered"}
    /\ IF valid
       THEN /\ reindex' = [NoReindex EXCEPT !.step = "listDocuments",
                                            !.documentId = documentId]
            /\ UNCHANGED response
       ELSE /\ response' = [op |-> "reindex", jobId |-> 0, success |-> FALSE, jobs |-> {}]
            /\ reindex' = [NoReindex EXCEPT !.step = "answered"]
    /\ UNCHANGED <<folder, jobs, registry, run, index, cleared, statusLog>>

\* await this.sharePointService.listDocuments(siteId, '/', false) answers;
\* 'Document not found' if the document is not in the listing
ReindexListDocumentsReturns(result) ==
    /\ reindex.step = "listDocuments"
    /\ IF result = "ok" /\ reindex.documentId \in Range(listDocuments)
       THEN /\ reindex' = [reindex EXCEPT !.step = "search"]
            /\ UNCHANGED response
       ELSE PutCatch
    /\ UNCHANGED <<folder, jobs, registry, run, index, cleared, statusLog>>

\* await this.vectorStore.search(...) answers with the existing chunks
ReindexSearchReturns(result) ==
    /\ reindex.step = "search"
    /\ IF result = "ok"
       THEN \E existingChunks \in ExistingChunks(reindex.documentId) :
                IF existingChunks # {}
                THEN /\ reindex' = [reindex EXCEPT !.step = "deleteDocuments",
                                                   !.existingChunks = existingChunks]
                     /\ UNCHANGED response
                ELSE ReindexProcessDocument(reindex.documentId, FALSE)
       ELSE PutCatch
    /\ UNCHANGED <<folder, jobs, registry, run, index, cleared, statusLog>>

\* await this.vectorStore.deleteDocuments(chunkIds) answers
ReindexDeleteDocumentsReturns(result) ==
    /\ reindex.step = "deleteDocuments"
    /\ IF result = "ok"
       THEN /\ index' = index \ reindex.existingChunks
            /\ ReindexProcessDocument(reindex.documentId, TRUE)
       ELSE /\ PutCatch
            /\ UNCHANGED index
    /\ UNCHANGED <<folder, jobs, registry, run, cleared, statusLog>>

\* await this.sharePointService.downloadDocument(...) answers in processDocument
ReindexDownloadReturns(result) ==
    /\ reindex.step = "download"
    /\ IF result = "ok"
       THEN /\ reindex' = [reindex EXCEPT !.step = "process", !.task.step = "process"]
            /\ UNCHANGED response
       ELSE ReindexReturns(processDocumentCatch(reindex.task))
    /\ UNCHANGED <<folder, jobs, registry, run, index, cleared, statusLog>>

\* await this.documentProcessor.processDocument(...) answers in processDocument
ReindexProcessReturns(result, n) ==
    /\ reindex.step = "process"
    /\ IF result = "ok"
       THEN /\ reindex' = [reindex EXCEPT !.step = "addDocuments",
                                          !.task.step = "addDocuments",
                                          !.task.chunks = n]
            /\ UNCHANGED response
       ELSE ReindexReturns(processDocumentCatch(reindex.task))
    /\ UNCHANGED <<folder, jobs, registry, run, index, cleared, statusLog>>

\* await this.vectorStore.addDocuments(vectorDocuments) answers in processDocument
ReindexAddDocumentsReturns(result) ==
    /\ reindex.step = "addDocuments"
    /\ reindex.task.chunks = 0 => result = "ok"
    /\ IF result = "ok"
       THEN /\ index' = index \cup UnitIds(reindex.documentId, reindex.task.chunks)
            /\ ReindexReturns(processDocumentReturn(reindex.task))
       ELSE /\ index' = index
            /\ ReindexReturns(processDocumentCatch(reindex.task))
    /\ UNCHANGED <<folder, jobs, registry, run, cleared, statusLog>>

ReindexIdle == reindex = NoReindex

\* the folder of the start, and the units of earlier jobs in the collection:
\* a few of each document, or k + 1 of the long document N70
ReindexInit ==
    /\ reindex = NoReindex
    /\ folder = InitialFolder
    /\ \E n \in [InitialFolder \ VideoIds -> 0..MaxChunks], many \in BOOLEAN :
           index = UNION {UnitIds(id, IF many /\ id = "N70" THEN ReindexSearchK + 1 ELSE n[id]) :
                             id \in InitialFolder \ VideoIds}
    /\ jobs = NoTasks
    /\ registry = NoTasks
    /\ run = NoTasks
    /\ response = NoResponse
    /\ cleared = FALSE
    /\ statusLog = NoTasks

(***************************************************************************)
(* The specifications                                                      *)
(***************************************************************************)
vars == <<folder, jobs, registry, run, index, response, cleared, statusLog,
          documents, prioritized, pcPrioritize, classifierOut,
          collection, query, queryLanguage, searchK, callerFilter, answer, pcSearch,
          keywordHits, semanticHits, mergeK, mergedKS, mergedSK, pcMerge,
          rerankInput, rerankQueryLanguage, reranked, pcRerank,
          extracted, normalized, docChunks, pcChunk,
          storeInput, points, callLog, statsCount,
          attempt, lastError, now, wakeAt, retryLog, outcome, pcRetry, reindex>>

\* the parts that are one function applied to one input
unitVars == <<rerankVars, chunkVars, storeVars, retryVars, reindexVars>>

UnitsIdle == RerankIdle /\ ChunkIdle /\ StoreIdle /\ RetryIdle /\ ReindexIdle

otherVars == <<prioritizeVars, searchVars, mergeVars, unitVars>>

Init == JobsInit /\ PrioritizeIdle /\ SearchIdle /\ MergeIdle /\ UnitsIdle

Next ==
    \/ \E batchSize \in 1..MaxBatchSize : StartIndexing(batchSize) /\ UNCHANGED otherVars
    \/ \E j \in 1..MaxJobs, result \in {"found", "missing", "throws"} :
            ListSitesReturns(j, result) /\ UNCHANGED otherVars
    \/ \E j \in 1..MaxJobs, result \in {"found", "throws"} :
            GetSiteByIdReturns(j, result) /\ UNCHANGED otherVars
    \/ \E j \in 1..MaxJobs, result \in {"ok", "throws"} :
            ListDocumentsReturns(j, result) /\ UNCHANGED otherVars
    \/ \E j \in 1..MaxJobs, id \in JobDocs, result \in {"ok", "throws"} :
            DownloadReturns(j, id, result) /\ UNCHANGED otherVars
    \/ \E j \in 1..MaxJobs, id \in JobDocs, result \in {"ok", "throws"}, n \in 0..MaxChunks :
            ProcessReturns(j, id, result, n) /\ UNCHANGED otherVars
    \/ \E j \in 1..MaxJobs, id \in JobDocs, result \in {"ok", "throws"} :
            AddDocumentsReturns(j, id, result) /\ UNCHANGED otherVars
    \/ \E j \in 1..MaxJobs : BatchSettled(j) /\ UNCHANGED otherVars
    \/ \E j \in 1..MaxJobs : DelayElapsed(j) /\ UNCHANGED otherVars
    \/ \E j \in 1..MaxJobs : StartIndexingCatch(j) /\ UNCHANGED otherVars
    \/ \E j \in 1..MaxJobs : GetJob(j) /\ UNCHANGED otherVars
    \/ ListJobs /\ UNCHANGED otherVars
    \/ \E result \in {"ok", "throws"} : ClearIndex(result) /\ UNCHANGED otherVars
    \/ \E j \in 1..MaxJobs : DeleteJob(j) /\ UNCHANGED otherVars
    \/ \E id \in FolderPool : FolderAdd(id) /\ UNCHANGED otherVars

Spec == Init /\ [][Next]_vars

\* The jobs on their own, for what they come to in the end: the requests
\* that read the jobs or clear the index and the changes of the folder are
\* left out, they write nothing a job waits for.
LiveNext ==
    \/ \E batchSize \in 1..MaxBatchSize : StartIndexing(batchSize) /\ UNCHANGED otherVars
    \/ \E j \in 1..MaxJobs, result \in {"found", "missing", "throws"} :
            ListSitesReturns(j, result) /\ UNCHANGED otherVars
    \/ \E j \in 1..MaxJobs, result \in {"found", "throws"} :
            GetSiteByIdReturns(j, result) /\ UNCHANGED otherVars
    \/ \E j \in 1..MaxJobs, result \in {"ok", "throws"} :
            ListDocumentsReturns(j, result) /\ UNCHANGED otherVars
    \/ \E j \in 1..MaxJobs, id \in JobDocs, result \in {"ok", "throws"} :
            DownloadReturns(j, id, result) /\ UNCHANGED otherVars
    \/ \E j \in 1..MaxJobs, id \in JobDocs, result \in {"ok", "throws"}, n \in 0..MaxChunks :
            ProcessReturns(j, id, result, n) /\ UNCHANGED otherVars
    \/ \E j \in 1..MaxJobs, id \in JobDocs, result \in {"ok", "throws"} :
            AddDocumentsReturns(j, id, result) /\ UNCHANGED otherVars
    \/ \E j \in 1..MaxJobs : BatchSettled(j) /\ UNCHANGED otherVars
    \/ \E j \in 1..MaxJobs : DelayElapsed(j) /\ UNCHANGED otherVars
    \/ \E j \in 1..MaxJobs : StartIndexingCatch(j) /\ UNCHANGED otherVars

\* every call a job awaits returns or throws in the end, every timer
\* fires, and a promise that is settled has its continuation run
LiveFairness ==
    \A j \in 1..MaxJobs :
        /\ WF_vars(\E result \in {"found", "missing", "throws"} :
                      ListSitesReturns(j, result) /\ UNCHANGED otherVars)
        /\ WF_vars(\E result \in {"found", "throws"} :
                      GetSiteByIdReturns(j, result) /\ UNCHANGED otherVars)
        /\ WF_vars(\E result \in {"ok", "throws"} :
                      ListDocumentsReturns(j, result) /\ UNCHANGED otherVars)
        /\ WF_vars(\E id \in JobDocs, result \in {"ok", "throws"} :
                      DownloadReturns(j, id, result) /\ UNCHANGED otherVars)
        /\ WF_vars(\E id \in JobDocs, result \in {"ok", "throws"}, n \in 0..MaxChunks :
                      ProcessReturns(j, id, result, n) /\ UNCHANGED otherVars)
        /\ WF_vars(\E id \in JobDocs, result \in {"ok", "throws"} :
                      AddDocumentsReturns(j, id, result) /\ UNCHANGED otherVars)
        /\ WF_vars(BatchSettled(j) /\ UNCHANGED otherVars)
        /\ WF_vars(DelayElapsed(j) /\ UNCHANGED otherVars)
        /\ WF_vars(StartIndexingCatch(j) /\ UNCHANGED otherVars)

SpecLive == Init /\ [][LiveNext]_vars /\ LiveFairness

PrioritizeNext == Prioritize /\ UNCHANGED <<jobVars, searchVars, mergeVars, unitVars>>

InitPrioritize == PrioritizeInit /\ JobsIdle /\ SearchIdle /\ MergeIdle /\ UnitsIdle

SpecPrioritize == InitPrioritize /\ [][PrioritizeNext]_vars

SearchNext == Search /\ UNCHANGED <<jobVars, prioritizeVars, mergeVars, unitVars>>

InitSearch == SearchInit /\ JobsIdle /\ PrioritizeIdle /\ MergeIdle /\ UnitsIdle

SpecSearch == InitSearch /\ [][SearchNext]_vars

InitLocator == LocatorInit /\ JobsIdle /\ PrioritizeIdle /\ MergeIdle /\ UnitsIdle

SpecLocator == InitLocator /\ [][SearchNext]_vars

MergeNext == Merge /\ UNCHANGED <<jobVars, prioritizeVars, searchVars, unitVars>>

InitMerge == MergeInit /\ JobsIdle /\ PrioritizeIdle /\ SearchIdle /\ UnitsIdle

SpecMerge == InitMerge /\ [][MergeNext]_vars

\* the parts of the orchestrator, the prioritizer, the search and the merge
mainVars == <<jobVars, prioritizeVars, searchVars, mergeVars>>

MainIdle == JobsIdle /\ PrioritizeIdle /\ SearchIdle /\ MergeIdle

RerankNext == Rerank /\ UNCHANGED <<mainVars, chunkVars, storeVars, retryVars, reindexVars>>

InitRerank == RerankInit /\ MainIdle /\ ChunkIdle /\ StoreIdle /\ RetryIdle /\ ReindexIdle

SpecRerank == InitRerank /\ [][RerankNext]_vars

ChunkNext == ProcessText /\ UNCHANGED <<mainVars, rerankVars, storeVars, retryVars, reindexVars>>

InitChunk == ChunkInit /\ MainIdle /\ RerankIdle /\ StoreIdle /\ RetryIdle /\ ReindexIdle

SpecChunk == InitChunk /\ [][ChunkNext]_vars

StoreNext ==
    \/ \E result \in {"ok", "throws"} :
            AddDocuments(result) /\ UNCHANGED <<mainVars, rerankVars, chunkVars, retryVars, reindexVars>>
    \/ GetCollectionStats /\ UNCHANGED <<mainVars, rerankVars, chunkVars, retryVars, reindexVars>>

InitStore == StoreInit /\ MainIdle /\ RerankIdle /\ ChunkIdle /\ RetryIdle /\ ReindexIdle

SpecStore == InitStore /\ [][StoreNext]_vars

RetryNext ==
    \/ \E succeeds \in BOOLEAN :
            TryOperation(succeeds) /\ UNCHANGED <<mainVars, rerankVars, chunkVars, storeVars, reindexVars>>
    \/ TimerFires /\ UNCHANGED <<mainVars, rerankVars, chunkVars, storeVars, reindexVars>>

InitRetry == RetryInit /\ MainIdle /\ RerankIdle /\ ChunkIdle /\ StoreIdle /\ ReindexIdle

SpecRetry == InitRetry /\ [][RetryNext]_vars

reindexOtherVars == <<prioritizeVars, searchVars, mergeVars,
                      rerankVars, chunkVars, storeVars, retryVars>>

ReindexNext ==
    \/ \E documentId \in InitialFolder \cup FolderPool, valid \in BOOLEAN :
            PutReindex(documentId, valid) /\ UNCHANGED reindexOtherVars
    \/ \E result \in {"ok", "throws"} :
            ReindexListDocumentsReturns(result) /\ UNCHANGED reindexOtherVars
    \/ \E result \in {"ok", "throws"} :
            ReindexSearchReturns(result) /\ UNCHANGED reindexOtherVars
    \/ \E result \in {"ok", "throws"} :
            ReindexDeleteDocumentsReturns(result) /\ UNCHANGED reindexOtherVars
    \/ \E result \in {"ok", "throws"} :
            ReindexDownloadReturns(result) /\ UNCHANGED reindexOtherVars
    \/ \E result \in {"ok", "throws"}, n \in 0..MaxChunks :
            ReindexProcessReturns(result, n) /\ UNCHANGED reindexOtherVars
    \/ \E result \in {"ok", "throws"} :
            ReindexAddDocumentsReturns(result) /\ UNCHANGED reindexOtherVars

InitReindex ==
    /\ ReindexInit /\ PrioritizeIdle /\ SearchIdle /\ MergeIdle
    /\ RerankIdle /\ ChunkIdle /\ StoreIdle /\ RetryIdle

SpecReindex == InitReindex /\ [][ReindexNext]_vars

(***************************************************************************)
(* Claims about the job counters, the job registry and the job status      *)
(***************************************************************************)
Last(seq) == seq[Len(seq)]

Finished == {j \in DOMAIN run : run[j].phase \in {"completed", "failed"}}

\* C1: a document whose processing failed inside a job is counted in
\* failedDocuments and is not counted in processedDocuments
C1_FailedDocumentCounted ==
    \A j \in DOMAIN jobs :
        jobs[j].status = "completed" =>
            /\ jobs[j].failedDocuments = Cardinality(run[j].failedIds)
            /\ jobs[j].processedDocuments =
                   jobs[j].totalDocuments - Cardinality(run[j].failedIds)

\* C2: as long as no clear-index was served, get-job finds every job that
\* start-job returned, and list-jobs includes every such job
C2_JobRetrievable ==
    ~cleared =>
        /\ response.op = "getJob" => response.success
        /\ response.op = "listJobs" => DOMAIN jobs \subseteq response.jobs

StatusMoves == {<<"pending", "processing">>, <<"processing", "completed">>,
                <<"processing", "failed">>}

\* C3: the values written to a job's status read pending, processing, and
\* then completed or failed; a later write repeats the value; and no step,
\* a DELETE action=job request included, moves a status in another way
C3_StatusOnlyMovesForward ==
    /\ [](\A j \in DOMAIN jobs :
            /\ statusLog[j][1] = "pending"
            /\ Last(statusLog[j]) = jobs[j].status
            /\ \A k \in 1..(Len(statusLog[j]) - 1) :
                  \/ statusLog[j][k] = statusLog[j][k + 1]
                  \/ <<statusLog[j][k], statusLog[j][k + 1]>> \in StatusMoves)
    /\ [][\A j \in DOMAIN jobs :
            jobs'[j].status # jobs[j].status =>
                <<jobs[j].status, jobs'[j].status>> \in StatusMoves]_vars

\* a DELETE action=job request was answered for a job that is completed, and
\* a job failed and its status was written again by the catch callback
C3_Witness ==
    /\ response.op = "deleteJob"
    /\ \E j \in DOMAIN jobs : jobs[j].status = "completed"
    /\ \E j \in DOMAIN jobs : Len(statusLog[j]) = 4

Indexed == {id \in JobDocs : \E c \in 0..(MaxChunks - 1) : <<id, c>> \in index}

\* C4: when no job is running, the index holds units of at most one
\* canonical document and at most one English translation per group, and no
\* unit of a document that the last job's prioritizer dropped
C4_OneCanonicalPerGroup ==
    (DOMAIN jobs # {} /\ Finished = DOMAIN jobs) =>
        /\ \A id \in Indexed :
              LET members == {m \in Indexed : GroupKey[m] = GroupKey[id]}
              IN  /\ Cardinality({m \in members : ~IsEnglishTranslation(m)}) <= 1
                  /\ Cardinality({m \in members : IsEnglishTranslation(m)}) <= 1
        /\ LET last == Cardinality(DOMAIN jobs)
           IN  run[last].phase = "completed" => run[last].dropped \cap Indexed = {}

(***************************************************************************)
(* Claims about the prioritizer                                            *)
(***************************************************************************)
RanksAbove(a, b) == compareAuthority(classifyDocument(a), classifyDocument(b)) < 0

GroupMembers(key) == {id \in Range(documents) : GroupKey[id] = key}

Survivors(key) == {i \in DOMAIN prioritized : GroupKey[prioritized[i]] = key}

HigherVersion(a, b) ==
    \/ ExampleVersion(a)[1] > ExampleVersion(b)[1]
    \/ ExampleVersion(a)[1] = ExampleVersion(b)[1] /\ ExampleVersion(a)[2] > ExampleVersion(b)[2]

\* C5: the authority order puts a higher version above a lower one whatever
\* the languages, and Norwegian above English of the same version: Norwegian
\* v7.1 > English v7.1 > Norwegian v7.0 > Norwegian v6.3
C5_VersionThenLanguage ==
    pcPrioritize = "done" =>
        \A a, b \in Range(documents) \cap ExampleIds :
            /\ HigherVersion(a, b) => RanksAbove(a, b)
            /\ ( /\ ExampleVersion(a) = ExampleVersion(b)
                 /\ classifyDocument(a).language = "norwegian"
                 /\ classifyDocument(b).language = "english" ) => RanksAbove(a, b)

\* C6: of a group with two or more members prioritize keeps one or two
\* members; when two, the top-ranked member, which is Norwegian, and the
\* highest-ranked English translation, which does not rank above it
C6_OneOrTwoSurvivors ==
    pcPrioritize = "done" =>
        \A key \in {GroupKey[id] : id \in Range(documents)} :
            Cardinality(GroupMembers(key)) >= 2 =>
                /\ Cardinality(Survivors(key)) \in {1, 2}
                /\ \A i \in Survivors(key) : prioritized[i] \in GroupMembers(key)
                /\ Cardinality(Survivors(key)) = 2 =>
                     \E n, e \in GroupMembers(key) :
                        /\ {prioritized[i] : i \in Survivors(key)} = {n, e}
                        /\ n # e
                        /\ classifyDocument(n).language = "norwegian"
                        /\ \A m \in GroupMembers(key) : ~RanksAbove(m, n)
                        /\ IsEnglishTranslation(e)
                        /\ \A m \in GroupMembers(key) :
                              IsEnglishTranslation(m) => ~RanksAbove(m, e)
                        /\ ~RanksAbove(e, n)

\* a group of three members of which two were kept
C6_Witness ==
    /\ pcPrioritize = "done"
    /\ \E key \in {GroupKey[id] : id \in Range(documents)} :
          Cardinality(GroupMembers(key)) = 3 /\ Cardinality(Survivors(key)) = 2

\* C7: of several versions of the Norwegian local laws and the ENG copy of
\* the latest one in one folder, prioritize keeps exactly the highest
\* Norwegian version and the English copy
C7_ExampleFolder ==
    ( /\ pcPrioritize = "done"
      /\ Range(documents) \subseteq ExampleIds
      /\ {"N71", "E71"} \subseteq Range(documents)
      /\ Cardinality(Range(documents)) >= 3 )
        => Range(prioritized) = {"N71", "E71"}

\* the four documents of the example were prioritized, and two were dropped
C7_Witness ==
    /\ pcPrioritize = "done"
    /\ Range(documents) = ExampleIds
    /\ Len(prioritized) = 2

\* C8: prioritize returns documents of its input only, each at most once,
\* and the document of every singleton group among them
C8_DuplicateFreeSubset ==
    pcPrioritize = "done" =>
        /\ \A i \in DOMAIN prioritized : prioritized[i] \in Range(documents)
        /\ \A i, k \in DOMAIN prioritized : i # k => prioritized[i] # prioritized[k]
        /\ \A id \in Range(documents) :
              Cardinality(GroupMembers(GroupKey[id])) = 1 => id \in Range(prioritized)

\* a list with a singleton group and a group of which a member was dropped
C8_Witness ==
    /\ pcPrioritize = "done"
    /\ Len(prioritized) < Len(documents)
    /\ \E id \in Range(documents) :
          Cardinality(GroupMembers(GroupKey[id])) = 1 /\ id \in Range(prioritized)
(***************************************************************************)
(* Claims about the search                                                 *)
(***************************************************************************)
\* C9: every result of a search, of the keyword pass or of the semantic
\* pass, is authoritative and latest, satisfies every filter of the caller,
\* and is of the detected category when one was detected
C9_ResultsEligible ==
    pcSearch = "done" =>
        \A result \in Range(answer) :
            /\ collection[result.id].isAuthoritative
            /\ collection[result.id].isLatest
            /\ MatchesFilter(collection[result.id], callerFilter)
            /\ QueryCategory[query] # "none" =>
                  collection[result.id].documentCategory = QueryCategory[query]

\* the ids and the scores of a merged list, in its order
IdsAndScores(entries) == [i \in DOMAIN entries |-> <<entries[i].id, entries[i].score>>]

DisjointHits ==
    LET all == keywordHits \o semanticHits
    IN  \A i, j \in DOMAIN all :
            i < j => all[i].id # all[j].id /\ all[i].score # all[j].score

FinalScore(result) == result.score + RerankBonus(result, RerankQuery, rerankQueryLanguage)

\* C11: every result is returned with its prior score plus the six bonuses,
\* counted once, and the results are returned in non-increasing order of
\* that final score, for lists of one, two, three or more results.
C11_BonusesCountedOnce ==
    pcRerank = "done" =>
        /\ \A i \in DOMAIN reranked :
                reranked[i].score = FinalScore(rerankInput[reranked[i].id])
        /\ \A i, j \in DOMAIN reranked :
                i < j => FinalScore(rerankInput[reranked[i].id])
                            >= FinalScore(rerankInput[reranked[j].id])

\* C12: the query '§ 6.3 vedtektene' over an index with the eligible
\* structured chunk of section 6.3 and eligible unstructured chunks that
\* mention 6.3: the structured chunk is the first result, as a keyword or
\* hybrid result, and its score is strictly above the score of every
\* unstructured chunk returned, whatever the similarities, the languages and
\* the lengths.
C12_StructuredChunkFirst ==
    pcSearch = "done" /\ query = <<"§"," ","6",".","3"," ","v","e","d","t","e","k","t","e","n","e">> =>
        /\ answer # <<>>
        /\ collection[answer[1].id].shape = "section"
        /\ answer[1].searchType \in {"keyword", "hybrid"}
        /\ \A i \in DOMAIN answer :
                collection[answer[i].id].shape = "mention" => answer[i].score < answer[1].score

(***************************************************************************)
(* Claims about the document processor                                     *)
(***************************************************************************)
\* the structure-aware pass made the chunks
StructureAware == pcChunk = "done" /\ docChunks # <<>> /\ docChunks[1].isStructured

\* the positions of the extracted text where a line starts with '§ n'
HeaderLines ==
    {i \in DOMAIN extracted :
        /\ i = 1 \/ extracted[i - 1] = "\n"
        /\ extracted[i] = "§"
        /\ MatchSection(extracted, i, 1).ok}

C14_ContentAndIndex ==
    pcChunk = "done" =>
        \A i \in DOMAIN docChunks :
            trim(docChunks[i].content) # <<>> /\ docChunks[i].chunkIndex = i - 1

\* a document of three semantic chunks or more
C14_Witness ==
    pcChunk = "done" /\ Len(docChunks) >= 3 /\ ~docChunks[1].isStructured

\* C19: the chunks of an extracted text with two header lines or more are
\* the structured chunks of its sections, one for each header line and in
\* their order: the text from the header to the next header, with the
\* sectionNumber of the header; no semantic chunks, no single merged chunk.
C19_OneChunkPerHeaderLine ==
    pcChunk = "done" /\ Cardinality(HeaderLines) >= 2 =>
        /\ Len(docChunks) = Cardinality(HeaderLines)
        /\ \A k \in DOMAIN docChunks :
              LET Nth(n) == CHOOSE i \in HeaderLines :
                                Cardinality({h \in HeaderLines : h <= i}) = n
                  next == IF k < Len(docChunks) THEN Nth(k + 1) ELSE Len(extracted) + 1
              IN  /\ docChunks[k].isStructured
                  /\ docChunks[k].sectionNumber = MatchSection(extracted, Nth(k), 1).number
                  /\ docChunks[k].content = cleanText(SubSeq(extracted, Nth(k), next - 1))

\* whether one of the four boundaries ('\n\n', '. ', '.\n', '\n') starts at
\* the offset pos of the window that starts at startIndex and lies in it
BoundaryAt(startIndex, pos) ==
    LET c1 == normalized[startIndex + pos + 1]
        two == pos + 2 <= chunkSize
        c2 == normalized[startIndex + pos + 2]
    IN  \/ c1 = "\n"
        \/ two /\ c1 = "." /\ c2 \in {" ", "\n"}

\* C20: a chunk of the semantic pass whose window does not reach the end
\* of the text, whatever the offset the window starts at, ends at a
\* boundary of the last 40% of the window (the offsets above 720 of 1200)
\* when there is one there, and not at the cut after 1200 characters.
C20_WindowEndsAtBoundary ==
    pcChunk = "done" =>
        \A i \in DOMAIN docChunks :
            LET startIndex == docChunks[i].startChar
                back == {pos \in ((6 * chunkSize) \div 10 + 1)..(chunkSize - 1) :
                            BoundaryAt(startIndex, pos)}
            IN  (/\ ~docChunks[i].isStructured
                 /\ startIndex + chunkSize < Len(normalized)
                 /\ back # {})
                => \E pos \in back : docChunks[i].endChar = startIndex + pos + 1

(***************************************************************************)
(* Claims about the vector store                                           *)
(***************************************************************************)
\* C15: two calls of addDocuments with the same documents that both return
\* map every unit id to the same store identifier, the second call adds no
\* point, and the count getCollectionStats answers is the same after the
\* second call as after the first.
C15_SecondCallAddsNoPoint ==
    \A i, j \in DOMAIN callLog :
        i < j /\ callLog[i].result = "ok" /\ callLog[j].result = "ok" =>
            /\ callLog[j].ids = callLog[i].ids
            /\ callLog[j].count = callLog[i].count
            /\ Len(callLog) = j => Count = callLog[i].count /\ statsCount \in {0, Count}

\* two calls that returned, with two units written, and the count read
C15_Witness ==
    /\ Len(callLog) = 2
    /\ callLog[1].result = "ok" /\ callLog[2].result = "ok"
    /\ Cardinality(points) = 2
    /\ statsCount = 2

\* C16: an operation in withRetry is attempted at most 3 times; the first
\* attempt that succeeds returns its result and no attempt follows it;
\* after the n-th failed attempt (n = 1, 2) the next attempt starts no
\* sooner than 1000 ms x 2^(n-1) later; after the 3rd failure the error of
\* the 3rd attempt is thrown.
C16_RetryWithBackoff ==
    LET made == Len(retryLog)
    IN  /\ made <= 3
        /\ \A n \in 1..(made - 1) : ~retryLog[n].succeeded
        /\ \A n \in 1..(made - 1) :
               retryLog[n + 1].startedAt >=
                   retryLog[n].endedAt + (IF n = 1 THEN 1000 ELSE 2000)
        /\ (made > 0 /\ retryLog[made].succeeded) =>
               /\ pcRetry = "returned"
               /\ outcome = [kind |-> "returned", value |-> <<"result", made>>]
        /\ (made = 3 /\ ~retryLog[3].succeeded) =>
               /\ pcRetry = "thrown"
               /\ outcome = [kind |-> "thrown", value |-> <<"error", 3>>]
        /\ pcRetry = "thrown" => made = 3
        /\ pcRetry = "returned" => retryLog[made].succeeded

\* three attempts failed and the error came out
C16_Witness ==
    /\ pcRetry = "thrown"
    /\ Len(retryLog) = 3
    /\ retryLog[3].startedAt >= 3000

(***************************************************************************)
(* Claims about the failures of the orchestrator                           *)
(***************************************************************************)
\* C17: if the reprocessing step of reindexDocument fails (download,
\* extraction or vector-store write), the reindex request answers with
\* success = false; it never answers 'Document reindexed successfully'
\* when processDocument came back with an error.
C17_ReindexFailureReported ==
    (reindex.step = "answered" /\ reindex.task.error) => ~response.success

\* C18: when listing the sites or listing the documents throws in a job,
\* the job gets status failed, the message of the exception as its error
\* and an endTime, and keeps them; the request that started the job was
\* answered with the job id, and the exception changes no answer.
C18_JobLevelThrowFailsJob ==
    /\ [](\A j \in DOMAIN run :
            run[j].phase \in {"rejected", "failed"} =>
                /\ jobs[j].status = "failed"
                /\ jobs[j].error \in {"listSites failed", "listDocuments failed"}
                /\ jobs[j].endTime = "set")
    /\ [][\A j \in DOMAIN run' :
            /\ j \notin DOMAIN run =>
                   response' = [op |-> "startJob", jobId |-> j, success |-> TRUE,
                                jobs |-> {}]
            /\ (j \in DOMAIN run /\ run[j].phase \in {"listSites", "listDocuments"}
                    /\ run'[j].phase = "rejected") =>
                   /\ jobs'[j].status = "failed"
                   /\ jobs'[j].error = (IF run[j].phase = "listSites"
                                        THEN "listSites failed"
                                        ELSE "listDocuments failed")
                   /\ jobs'[j].endTime = "set"
                   /\ response' = response
            /\ (j \in DOMAIN run /\ run[j].phase \in {"rejected", "failed"}) =>
                   jobs'[j] = jobs[j]]_vars

\* the listing of the documents threw in a job whose site was found, and
\* the catch callback of startIndexing has run
C18_Witness ==
    \E j \in DOMAIN run :
        /\ run[j].phase = "failed"
        /\ jobs[j].siteName = "BISO"
        /\ jobs[j].error = "listDocuments failed"


(***************************************************************************)
(* Claims about the life of a job                                          *)
(***************************************************************************)
\* C21: once the status of a job is completed or failed, the job record is
\* not written again: no value is written to job.status after a terminal
\* one.
C21_TerminalJobNotWritten ==
    \A j \in DOMAIN statusLog :
        \A i \in 1..(Len(statusLog[j]) - 1) :
            statusLog[j][i] \notin {"completed", "failed"}


\* C22: in a job the batches run one after the other: the documents in
\* flight are the ones of the current batch, at most batchSize of them, and
\* a batch starts only when no task of the batch before is left and the
\* counters of the job count every document before it.
C22_BatchesInSequence ==
    /\ [](\A j \in DOMAIN run :
            /\ Cardinality(DOMAIN run[j].tasks) <= run[j].batchSize
            /\ run[j].phase = "batch" =>
                   /\ DOMAIN run[j].tasks =
                          Range(BatchSlice(run[j].todo, run[j].i, run[j].batchSize))
                   /\ jobs[j].processedDocuments + jobs[j].failedDocuments = run[j].i)
    /\ [][\A j \in DOMAIN run :
            run'[j].i > run[j].i =>
                /\ run[j].tasks = NoTasks
                /\ run'[j].i = run[j].i + run[j].batchSize
                /\ jobs[j].processedDocuments + jobs[j].failedDocuments = run'[j].i]_vars

\* a later batch of a job is in flight, after the batch before it was
\* counted
C22_Witness ==
    \E j \in DOMAIN run :
        /\ run[j].phase = "batch"
        /\ run[j].i > 0
        /\ jobs[j].processedDocuments > 0
        /\ \E id \in DOMAIN run[j].tasks : run[j].tasks[id].step = "addDocuments"


\* C23: the failure of a document neither ends the job nor skips another
\* document: a job that has handed a document to processDocument does not
\* fail, the documents handed over are the first ones of the prioritized
\* list, each once, and a completed job has handed over every one of them,
\* whatever documents failed.
C23_FailureIsIsolated ==
    \A j \in DOMAIN run :
        /\ run[j].started = SubSeq(run[j].todo, 1, Len(run[j].started))
        /\ run[j].failedIds \subseteq Range(run[j].started)
        /\ run[j].started # <<>> => jobs[j].status # "failed"
        /\ jobs[j].status = "completed" =>
               /\ run[j].started = run[j].todo
               /\ run[j].tasks = NoTasks

\* a job completed after two batches, its first document failed and a
\* later one is in the index
C23_Witness ==
    \E j \in DOMAIN run :
        /\ jobs[j].status = "completed"
        /\ Len(run[j].todo) >= 2
        /\ run[j].batchSize = 1
        /\ run[j].todo[1] \in run[j].failedIds
        /\ \E unit \in index : unit[1] = run[j].todo[2]


(***************************************************************************)
(* Claims about the units of a document in the index                       *)
(***************************************************************************)
\* C24: after reindexDocument(d) returned, the index holds no unit of d
\* other than the units this reprocessing wrote, however many units of d
\* there were before.
C24_ReindexLeavesOnlyNewUnits ==
    (reindex.step = "answered" /\ response.success) =>
        {unit \in index : unit[1] = reindex.documentId} \subseteq
            (IF reindex.task.error THEN {}
             ELSE UnitIds(reindex.documentId, reindex.task.chunks))


\* C25: addDocuments splits the units that have a text, in their order,
\* into consecutive sub-batches: every unit is in one sub-batch and no
\* other, a sub-batch has 64 units at most, a sub-batch of more than one
\* unit has 7000 tokens at most, and a unit is stored with the embedding
\* of its own text.
C25_SubBatches ==
    /\ \A c \in DOMAIN callLog :
        LET batches == callLog[c].batches
            RECURSIVE flat(_)
            flat(b) == IF b = 0 THEN <<>> ELSE flat(b - 1) \o batches[b].indices
            RECURSIVE sum(_, _)
            sum(b, i) == IF i = 0 THEN 0
                         ELSE sum(b, i - 1)
                                  + callLog[c].tokenCounts[batches[b].indices[i] + 1]
        IN  /\ flat(Len(batches)) = [i \in DOMAIN callLog[c].ids |-> i - 1]
            /\ \A b \in DOMAIN batches :
                /\ Len(batches[b].indices) \in 1..64
                /\ batches[b].tokenSum = sum(b, Len(batches[b].indices))
                /\ Len(batches[b].indices) > 1 => batches[b].tokenSum <= 7000
    /\ \A pt \in points : pt.vector = <<"embedding", pt.text>>

\* a call that returned after three sub-batches, the second one of 64 units
C25_Witness ==
    \E c \in DOMAIN callLog :
        /\ callLog[c].result = "ok"
        /\ Len(callLog[c].batches) = 3
        /\ Len(callLog[c].batches[2].indices) = 64
        /\ Cardinality(points) > 64


\* C26: every job that startIndexing started reaches the status completed
\* or failed in the end, if every call the job awaits returns or throws.
C26_JobEnds ==
    \A j \in 1..MaxJobs :
        (j \in DOMAIN jobs) ~> (j \in DOMAIN jobs /\ jobs[j].status \in {"completed", "failed"})

\* a job completed after a wait between two batches, and a job failed
C26_Witness ==
    /\ \E j \in DOMAIN jobs : jobs[j].status = "completed" /\ run[j].i > 0
    /\ \E j \in DOMAIN jobs : jobs[j].status = "failed"


\* C27: after clearIndex has returned the index stays empty until a new
\* indexing job or a reindex is started: as long as the clear is the last
\* request that was served, no job that was processing when it came has
\* written a unit to the index.
C27_IndexStaysEmptyAfterClear ==
    (response.op = "clear" /\ response.success) => index = {}


\* C28: when a job has indexed a document, the index holds no unit of that
\* document with a chunkIndex at or above the number of chunks the document
\* yielded in this job, also when the document was indexed before and had
\* more chunks then.
C28_NoStaleUnits ==
    \A j \in DOMAIN run : \A id \in DOMAIN run[j].tasks :
        (run[j].tasks[id].step = "settled" /\ ~run[j].tasks[id].error)
            => \A unit \in index : unit[1] = id => unit[2] < run[j].tasks[id].chunks


\* C30: in every state of a job processedDocuments + failedDocuments is at
\* most totalDocuments, and neither counter ever decreases; when the job is
\* completed, processedDocuments + failedDocuments = totalDocuments = the
\* number of documents the prioritizer kept.
C30_Counters ==
    /\ [](\A j \in DOMAIN jobs :
            /\ jobs[j].processedDocuments + jobs[j].failedDocuments <= jobs[j].totalDocuments
            /\ jobs[j].status = "completed" =>
                  /\ jobs[j].processedDocuments + jobs[j].failedDocuments
                         = jobs[j].totalDocuments
                  /\ jobs[j].totalDocuments = Len(run[j].todo))
    /\ [][\A j \in DOMAIN jobs :
            /\ jobs'[j].processedDocuments >= jobs[j].processedDocuments
            /\ jobs'[j].failedDocuments >= jobs[j].failedDocuments]_vars

\* a job of two batches is completed, one of its documents failed, and a
\* second job has counted its first batch
C30_Witness ==
    /\ \E j \in DOMAIN jobs :
          /\ jobs[j].status = "completed"
          /\ jobs[j].totalDocuments = 2
          /\ run[j].batchSize = 1
          /\ run[j].failedIds # {}
    /\ \E j \in DOMAIN jobs :
          /\ run[j].phase = "delay"
          /\ jobs[j].processedDocuments = 1


(***************************************************************************)
(* Claims about the chunker and the keyword search together                *)
(***************************************************************************)

\* C29: a structured chunk the chunker made from a header line "§ N" is an
\* exact locator match for the query "§ N": the keyword search finds the
\* paragraph pattern in the query, takes the sectionNumber of the chunk for
\* an exact section match and gives the chunk the base boost, the boost of
\* the structure and the boost of the exact match (0.3 + 0.2 + 0.3).
C29_HeaderChunkIsExactMatch ==
    pcChunk = "done" =>
        \A k \in DOMAIN docChunks :
            (docChunks[k].isStructured /\ StartsWithCI(docChunks[k].sectionNumber, 1, <<"§">>))
                => LET matches == PatternMatches(docChunks[k].sectionNumber)
                   IN  /\ matches # <<>>
                       /\ ExactSectionMatch(docChunks[k].sectionNumber, matches[1].numberOnly)
                       /\ ScoreBoost(docChunks[k].isStructured, docChunks[k].sectionNumber,
                                     matches[1].numberOnly) = 800

=============================================================================
